---- MODULE Spec2Model ----
(***************************************************************************)
(* Verification model of the dwce_time_tracker automation scripts.         *)
(*                                                                         *)
(* The scripts are independent, so each one is a state machine of its own  *)
(* over its own variables, with its own specification:                     *)
(*   SpecDel   scripts/delete_marked_duplicates.py                         *)
(*   SpecFind  scripts/find_duplicate_files.py                             *)
(*   SpecImport, SpecImportOk  code-workspace/import_payroll_bland_david.py *)
(*   SpecSyncSched  scheduled_tasks/sync_projects.py                       *)
(*   SpecSyncWs  code-workspace/sync_projects_access_to_supabase.py        *)
(*   SpecUpdate  update.py                                                 *)
(*   SpecCopy  code-workspace/copy_files.py                                *)
(*   SpecJobUpdate, SpecJobNumber  code-workspace/update_job_numbers.py    *)
(*   SpecDeepSearch  code-workspace/deep_search_chat.py                    *)
(* While one script runs, the variables of the others keep their idle      *)
(* values.                                                                 *)
(*                                                                         *)
(* Text that the code trims, lower-cases or searches is modelled as a      *)
(* sequence of one-character strings, so that str.strip(), str.lower()     *)
(* and the regular expressions are computed, not assumed.                  *)
(***************************************************************************)
EXTENDS Integers, Sequences, FiniteSets, TLC

VARIABLES
    \* ---- scripts/delete_marked_duplicates.py
    del_pc,       \* position in main(): "open","rows","list","confirm","delete","done","exit1"
    csv_exists,   \* csv_path.exists()
    header,       \* first line of the CSV (<<>> when the file is empty)
    dry_run,      \* args.dry_run
    no_confirm,   \* args.no_confirm
    row,          \* the row the reader loop holds (<<>> before the first)
    nread,        \* rows read so far
    to_delete,    \* list of paths selected for deletion
    reply,        \* the raw line typed at the prompt (NoReply before input() returns)
    di,           \* index of the next entry of to_delete in the deletion loop
    deleted,      \* count of unlinked files
    failed,       \* list of paths that could not be deleted
    disk,         \* the regular files that exist on disk
    disk0,        \* the files that existed when the script started
    \* ---- scripts/find_duplicate_files.py
    fd_pc,        \* position in find_duplicates(): "scan","walk","done"
    fs,           \* the file system: file slot -> [present, hash, readable]
    roots,        \* the list of roots given to find_duplicates
    min_size,     \* min_size argument
    max_size,     \* max_size argument (-1 stands for None)
    extensions,   \* extensions argument (given = FALSE stands for None)
    ri,           \* index of the root being scanned
    pending,      \* files os.walk has still to yield for the current root
    total,        \* count of files scan_path yielded
    hash_to_files,\* hash -> list of [path, size]
    dupes,        \* the returned map (empty before the return)
    \* ---- code-workspace/import_payroll_bland_david.py
    imp_pc,       \* position in main(): "start","prefetch","loop","done"
    run,          \* which run of the script this is (1 = first)
    diagnose,     \* "--diagnose" in sys.argv
    fix_imported, \* "--fix-imported" in sys.argv
    week_given,   \* week_num is not None
    selected_employees,  \* --employees (given = FALSE stands for None)
    rows,         \* the data rows loaded from the sheet
    db_fmt,       \* how the database renders a timestamp in a select
    user_cache,   \* display names resolved so far
    user_id,      \* the single user in single-user mode ("" = None)
    existing_keys,\* keys of the time_periods rows already there
    row_idx,      \* index of the row the loop is at
    inserted,
    skipped_no_date,
    skipped_no_work,
    skipped_site_placeholder,
    skipped_unknown_employee,
    skipped_not_selected,
    skipped_duplicate,
    errors,       \* the error messages: the row and what went wrong
    time_periods, \* table time_periods
    time_period_breaks,          \* table time_period_breaks
    time_period_used_fleet,      \* table time_period_used_fleet
    time_period_mobilised_fleet, \* table time_period_mobilised_fleet
    \* ---- scheduled_tasks/sync_projects.py and
    \*      code-workspace/sync_projects_access_to_supabase.py
    sync_pc,      \* position in main(): "start","sync","loop","done","edited"
    sync_run,     \* which run of the script this is
    access,       \* the enabled records of the Access year table
    remote_projects,     \* the remote table projects
    project_number_arg,  \* --project (None: full sync; scheduled_tasks only)
    projects,     \* what read_access_projects returned
    mapped_projects,
    sync_idx,     \* index of the project the upsert loop is at
    updated_count,
    inserted_count,
    error_count,  \* scheduled_tasks: error_count; code-workspace: errors printed
    exit_code,    \* what main() returns (-1 = not yet; scheduled_tasks only)
    sync_failure, \* what raised in this run: "none", "read" or "sync"
    \* ---- update.py
    upd_pc,       \* position in the script: "read","fetch","done","crashed"
    pubspec,      \* the dependency lines of pubspec.yaml
    pubspec0,     \* pubspec.yaml before the run
    current_packages,  \* keys of the dictionary read from the manifest
    upd_idx,      \* index of the package the lookup loop is at
    package_versions,  \* the dictionary of new versions, in insertion order
    lookups,      \* how each lookup ended: "version","none","raised"
    writes,       \* number of times pubspec.yaml was written
    \* ---- code-workspace/copy_files.py
    cp_pc,        \* position in main(): "main","copy","done"
    src_depth,    \* depth of the source tree (-1: SOURCE_PATH does not exist)
    src_files,    \* the file "f" of the source folder at each depth
    src_denied,   \* depth of the source folder that may not be listed (-1: none)
    dst_dirs,     \* the folders under DESTINATION_PATH (<<>> is the root)
    dst_dirs0,    \* dst_dirs before the run
    dst_files,    \* the files under DESTINATION_PATH
    cp_stack,     \* the active calls of copy_files_recursive
    cp_copied,    \* every copy shutil.copy2 made: source and destination path
    cp_failed,    \* the source paths whose processing raised
    cp_exit,      \* what main() returns (-1 = not yet)
    \* ---- code-workspace/update_job_numbers.py
    job_pc,       \* position in update_job_numbers(): "start","confirm","update","done","raised"
    job_db,       \* the committed table "2026"
    job_db0,      \* job_db before the run
    job_tx,       \* the table as the open connection sees it
    job_reply,    \* what the user typed at the prompt
    job_record_id,      \* record_id of the update loop
    job_updated_count,
    job_error_count,
    job_executed, \* number of UPDATE statements executed
    job_committed,      \* conn.commit() has returned
    gen_pc,       \* "call" before generate_job_number is applied, then "done"
    gen_ids,      \* two record IDs
    gen_numbers,  \* their Job_Numbers
    \* ---- code-workspace/deep_search_chat.py
    ds_pc,        \* position in deep_search_workspace_db(): "start","scan","done"
    db_exists,    \* os.path.exists(db_path)
    all_items,    \* the rows of ItemTable
    ds_idx,       \* index of the item the loop is at
    potential_chat_items,
    output_file   \* deep_search_results.json

delVars == <<del_pc, csv_exists, header, dry_run, no_confirm, row, nread,
             to_delete, reply, di, deleted, failed, disk, disk0>>

fdVars == <<fd_pc, fs, roots, min_size, max_size, extensions, ri, pending,
            total, hash_to_files, dupes>>

impCounters == <<inserted, skipped_no_date, skipped_no_work,
                 skipped_site_placeholder, skipped_unknown_employee,
                 skipped_not_selected, skipped_duplicate, errors>>

impTables == <<time_periods, time_period_breaks, time_period_used_fleet,
               time_period_mobilised_fleet>>

impArgs == <<diagnose, fix_imported, week_given, selected_employees, rows, db_fmt>>

impVars == <<imp_pc, run, impArgs, user_cache, user_id, existing_keys,
             row_idx, impCounters, impTables>>

syncVars == <<sync_pc, sync_run, access, remote_projects, project_number_arg,
              projects, mapped_projects, sync_idx, updated_count, inserted_count,
              error_count, exit_code, sync_failure>>

updVars == <<upd_pc, pubspec, pubspec0, current_packages, upd_idx,
             package_versions, lookups, writes>>

cpVars == <<cp_pc, src_depth, src_files, src_denied, dst_dirs, dst_dirs0,
            dst_files, cp_stack, cp_copied, cp_failed, cp_exit>>

jobVars == <<job_pc, job_db, job_db0, job_tx, job_reply, job_record_id,
             job_updated_count, job_error_count, job_executed, job_committed,
             gen_pc, gen_ids, gen_numbers>>

dsVars == <<ds_pc, db_exists, all_items, ds_idx, potential_chat_items, output_file>>

vars == <<delVars, fdVars, impVars, syncVars, updVars, cpVars, jobVars, dsVars>>

\* what each script leaves alone
notDel  == <<fdVars, impVars, syncVars, updVars, cpVars, jobVars, dsVars>>
notFd   == <<delVars, impVars, syncVars, updVars, cpVars, jobVars, dsVars>>
notImp  == <<delVars, fdVars, syncVars, updVars, cpVars, jobVars, dsVars>>
notSync == <<delVars, fdVars, impVars, updVars, cpVars, jobVars, dsVars>>
notUpd  == <<delVars, fdVars, impVars, syncVars, cpVars, jobVars, dsVars>>
notCp   == <<delVars, fdVars, impVars, syncVars, updVars, jobVars, dsVars>>
notJob  == <<delVars, fdVars, impVars, syncVars, updVars, cpVars, dsVars>>
notDs   == <<delVars, fdVars, impVars, syncVars, updVars, cpVars, jobVars>>

-----------------------------------------------------------------------------
(* Bounds of the model                                                     *)

\* rows the CSV reader yields at most
MaxRows == 2

\* roots find_duplicates is given at most
MaxRoots == 2

\* data rows of the payroll sheet at most
MaxSheetRows == 2

\* runs of the payroll import on the same sheet
MaxRuns == 2

\* enabled records in the Access table at most
MaxAccess == 2

\* runs of a sync script
MaxSyncRuns == 2

\* characters in a package name at most
MaxNameLen == 2

\* dependency lines in pubspec.yaml at most
MaxLines == 2

\* depth of the source tree of the copy at most
MaxTreeDepth == 2

\* UPDATE statements of one run that raise at most
MaxJobErrors == 1

\* items in ItemTable at most
MaxItems == 2

-----------------------------------------------------------------------------
(* Text helpers: Python str methods on sequences of characters             *)

Whitespace == {" ", "\t"}

\* str.lower() on one character (the letters the inputs use)
LowerChar(c) ==
    CASE c = "Y" -> "y" [] c = "E" -> "e" [] c = "S" -> "s"
      [] c = "T" -> "t" [] c = "R" -> "r" [] c = "U" -> "u"
      [] c = "X" -> "x" [] c = "N" -> "n" [] c = "O" -> "o"
      [] OTHER -> c

\* str.lower()
Lower(s) == [i \in 1..Len(s) |-> LowerChar(s[i])]

RECURSIVE LStrip(_)
LStrip(s) == IF s # <<>> /\ Head(s) \in Whitespace THEN LStrip(Tail(s)) ELSE s

RECURSIVE RStrip(_)
RStrip(s) ==
    IF s # <<>> /\ s[Len(s)] \in Whitespace
    THEN RStrip(SubSeq(s, 1, Len(s) - 1))
    ELSE s

\* str.strip()
Strip(s) == RStrip(LStrip(s))

\* list.index(x), 1-based; 0 stands for ValueError
RECURSIVE IndexFrom(_, _, _)
IndexFrom(s, x, i) ==
    IF i > Len(s) THEN 0
    ELSE IF s[i] = x THEN i ELSE IndexFrom(s, x, i + 1)

Index(s, x) == IndexFrom(s, x, 1)

Max2(a, b) == IF a >= b THEN a ELSE b

-----------------------------------------------------------------------------
(* scripts/delete_marked_duplicates.py                                     *)

S_y      == <<"y">>
S_yes    == <<"y", "e", "s">>
S_1      == <<"1">>
S_true   == <<"t", "r", "u", "e">>
S_x      == <<"x">>
S_delete == <<"d", "e", "l", "e", "t", "e">>

\* MARK_VALUES
MARK_VALUES == {S_y, S_yes, S_1, S_true, S_x, S_delete}

\* is_marked(value); a CSV cell is never None
is_marked(value) == Lower(Strip(value)) \in MARK_VALUES

\* the value of reply before input() has returned
NoReply == << "<none>" >>

\* the replies that let the deletion go ahead
ConfirmReplies == {S_y, S_yes}

\* mutant of reply_ok: the prompt defaults to yes, only 'n' and 'no' abort
reply_ok_default_yes(raw) == Lower(Strip(raw)) \notin { <<"n">>, <<"n", "o">> }

\* reply = input(...).strip().lower(); reply in ("y", "yes")
reply_ok(raw) == Lower(Strip(raw)) \in ConfirmReplies

\* cells a user may leave in the mark_for_deletion column
MarkCells ==
    { <<>>, <<" ">>, <<"Y">>, S_y, S_1, S_yes, <<" ", "Y", "E", "S", " ">>,
      S_true, <<"T", "r", "u", "e">>, S_x, <<"X", " ">>, S_delete,
      <<"n">>, <<"N", "O">>, <<"0">>, <<"y", "y">> }

\* lines a user may type at the prompt
Replies ==
    { <<>>, <<" ">>, S_y, <<"Y">>, <<" ", "Y", "E", "S", " ">>, S_yes,
      <<"n">>, <<"N", "O">>, <<"y", "y">>, S_1, S_true, S_x }

FileA == <<"a">>
FileB == <<"b">>
Files == {FileA, FileB}

\* cells of the full_path column
PathCells == { <<>>, <<" ">>, FileA, FileB, <<" ", "a", " ">> }

\* the header find_duplicate_files.py writes
StdHeader ==
    << "file_name", "full_path", "file_size", "date_modified", "file_hash",
       "duplicate_group_id", "mark_for_deletion" >>

Headers ==
    { <<>>, StdHeader, <<"mark_for_deletion", "full_path">>,
      <<"file_name", "full_path">>, <<"file_name", "mark_for_deletion">> }

\* header.index("full_path"), header.index("mark_for_deletion")
path_idx == Index(header, "full_path")
mark_idx == Index(header, "mark_for_deletion")

\* a CSV row of n cells with the given path and mark cells
MkRow(n, pcell, mcell) ==
    [i \in 1..n |-> IF i = path_idx THEN pcell
                    ELSE IF i = mark_idx THEN mcell ELSE <<>>]

\* the rows the reader may yield
CsvRows ==
    { MkRow(n, pcell, mcell) :
        n \in {1, Len(header)}, pcell \in PathCells, mcell \in MarkCells }

\* line 66: len(row) <= max(path_idx, mark_idx), 0-based indices
row_too_short(r) == Len(r) < Max2(path_idx, mark_idx)

\* lines 65-72: what one row appends to to_delete
row_selection(r) ==
    IF row_too_short(r) THEN <<>>
    ELSE IF Strip(r[path_idx]) = <<>> THEN <<>>
    ELSE IF is_marked(r[mark_idx]) THEN << Strip(r[path_idx]) >>
    ELSE <<>>

DelInit ==
    /\ del_pc = "open"
    /\ csv_exists \in BOOLEAN
    /\ header \in Headers
    /\ dry_run \in BOOLEAN
    /\ no_confirm \in BOOLEAN
    /\ row = <<>>
    /\ nread = 0
    /\ to_delete = <<>>
    /\ reply = NoReply
    /\ di = 1
    /\ deleted = 0
    /\ failed = <<>>
    /\ disk \in SUBSET Files
    /\ disk0 = disk

DelIdle ==
    /\ del_pc = "idle"
    /\ csv_exists = FALSE
    /\ header = <<>>
    /\ dry_run = FALSE
    /\ no_confirm = FALSE
    /\ row = <<>>
    /\ nread = 0
    /\ to_delete = <<>>
    /\ reply = NoReply
    /\ di = 1
    /\ deleted = 0
    /\ failed = <<>>
    /\ disk = {}
    /\ disk0 = {}

\* lines 46-64: open the CSV, read the header, find the two columns
DelOpen ==
    /\ del_pc = "open"
    /\ del_pc' = IF ~csv_exists \/ header = <<>> \/ path_idx = 0 \/ mark_idx = 0
                 THEN "exit1" ELSE "rows"
    /\ UNCHANGED <<csv_exists, header, dry_run, no_confirm, row, nread,
                   to_delete, reply, di, deleted, failed, disk, disk0>>
    /\ UNCHANGED notDel

\* lines 65-72: one turn of the reader loop
DelReadRow ==
    /\ del_pc = "rows"
    /\ nread < MaxRows
    /\ \E r \in CsvRows :
         /\ row' = r
         /\ to_delete' = to_delete \o row_selection(r)
    /\ nread' = nread + 1
    /\ UNCHANGED <<del_pc, csv_exists, header, dry_run, no_confirm,
                   reply, di, deleted, failed, disk, disk0>>
    /\ UNCHANGED notDel

\* mutant of DelEndOfFile: --no-confirm is looked at before --dry-run
DelEndOfFile_confirm_first ==
    /\ del_pc = "rows"
    /\ del_pc' = IF to_delete = <<>> THEN "done"
                 ELSE IF no_confirm THEN "delete"
                 ELSE IF dry_run THEN "done"
                 ELSE "confirm"
    /\ UNCHANGED <<csv_exists, header, dry_run, no_confirm, row, nread,
                   to_delete, reply, di, deleted, failed, disk, disk0>>
    /\ UNCHANGED notDel

\* lines 74-86: end of file; nothing marked, or a dry run, ends the script
DelEndOfFile ==
    /\ del_pc = "rows"
    /\ del_pc' = IF to_delete = <<>> THEN "done"
                 ELSE IF dry_run THEN "done"
                 ELSE IF ~no_confirm THEN "confirm"
                 ELSE "delete"
    /\ UNCHANGED <<csv_exists, header, dry_run, no_confirm, row, nread,
                   to_delete, reply, di, deleted, failed, disk, disk0>>
    /\ UNCHANGED notDel

\* lines 88-92: the confirmation prompt
DelConfirm ==
    /\ del_pc = "confirm"
    /\ \E raw \in Replies :
         /\ reply' = raw
         /\ del_pc' = IF reply_ok(raw) THEN "delete" ELSE "done"
    /\ UNCHANGED <<csv_exists, header, dry_run, no_confirm, row, nread,
                   to_delete, di, deleted, failed, disk, disk0>>
    /\ UNCHANGED notDel

\* lines 96-107: one turn of the deletion loop; unlink() or is_file() may raise
DelUnlink ==
    /\ del_pc = "delete"
    /\ di <= Len(to_delete)
    /\ LET p == to_delete[di] IN
         \/ /\ p \in disk
            /\ disk' = disk \ {p}
            /\ deleted' = deleted + 1
            /\ UNCHANGED failed
         \/ /\ failed' = Append(failed, p)
            /\ UNCHANGED <<disk, deleted>>
    /\ di' = di + 1
    /\ UNCHANGED <<del_pc, csv_exists, header, dry_run, no_confirm, row, nread,
                   to_delete, reply, disk0>>
    /\ UNCHANGED notDel

\* lines 109-115: the loop is over, the summary is printed
DelFinish ==
    /\ del_pc = "delete"
    /\ di > Len(to_delete)
    /\ del_pc' = "done"
    /\ UNCHANGED <<csv_exists, header, dry_run, no_confirm, row, nread,
                   to_delete, reply, di, deleted, failed, disk, disk0>>
    /\ UNCHANGED notDel

-----------------------------------------------------------------------------
(* scripts/find_duplicate_files.py                                         *)

\* The file system the scan sees: three file slots in three directories,
\* /d/a, /d/s/b (the directory /d/s lies inside /d) and /e/c.
Slots == {"/d/a", "/d/s/b", "/e/c"}

Hashes == {"h1", "h2"}

\* the state of an absent file slot
Absent == [present |-> FALSE, hash |-> "h1", readable |-> FALSE]

\* a file's state: absent, or its content hash and whether open() succeeds
FileStates == {Absent} \cup [present : {TRUE}, hash : Hashes, readable : BOOLEAN]

\* st.st_size: equal contents have equal sizes
SizeOf(h) == IF h = "h1" THEN 1 ELSE 2

\* fp.suffix of each slot, as characters
SuffixOf(slot) ==
    CASE slot = "/d/a"   -> <<".", "j", "p", "g">>
      [] slot = "/d/s/b" -> <<".", "J", "P", "G">>
      [] slot = "/e/c"   -> <<".", "t", "x", "t">>

\* str.lower() for the suffix letters
LowerExtChar(c) ==
    CASE c = "J" -> "j" [] c = "P" -> "p" [] c = "G" -> "g" [] OTHER -> c

LowerExt(s) == [i \in 1..Len(s) |-> LowerExtChar(s[i])]

\* str.lstrip('.')
RECURSIVE LStripDot(_)
LStripDot(s) == IF s # <<>> /\ Head(s) = "." THEN LStripDot(Tail(s)) ELSE s

\* the root arguments a caller may pass; "/d/s/.." names /d, "/nope" is missing
RootArgs == {"/d", "/d/s", "/e", "/d/s/..", "/nope"}

\* Path(root_path).resolve()
resolve(r) == IF r = "/d/s/.." THEN "/d" ELSE r

\* root.exists()
root_exists(r) == r \in {"/d", "/d/s", "/e"}

\* os.walk(root, topdown=True): the file names below root, parents first
walk(r) ==
    CASE r = "/d"   -> <<"/d/a", "/d/s/b">>
      [] r = "/d/s" -> <<"/d/s/b">>
      [] r = "/e"   -> <<"/e/c">>
      [] OTHER      -> <<>>

\* the values of the extensions argument
NoExtensions == [given |-> FALSE, exts |-> {}]

ExtensionArgs ==
    { NoExtensions,
      [given |-> TRUE, exts |-> { <<".", "j", "p", "g">> }],
      [given |-> TRUE, exts |-> { <<"T", "X", "T">> }] }

\* line 89: { e.lower().lstrip('.') for e in extensions }
norm_extensions(exts) == { LStripDot(LowerExt(e)) : e \in exts }

\* lines 98-110: does scan_path yield this file
scan_yields(slot) ==
    /\ fs[slot].present
    /\ SizeOf(fs[slot].hash) >= min_size
    /\ ~(max_size # -1 /\ SizeOf(fs[slot].hash) > max_size)
    /\ ~(extensions.given
         /\ LowerExt(LStripDot(SuffixOf(slot))) \notin norm_extensions(extensions.exts))

\* file_hash(path): the digest, or "none" when the file cannot be read
file_hash(slot) == IF fs[slot].readable THEN fs[slot].hash ELSE "none"

\* lines 130-132: hash_to_files[h].append((path, size, mtime))
add_file(map, h, slot) ==
    LET entry == [path |-> slot, size |-> SizeOf(fs[slot].hash)] IN
    IF h \in DOMAIN map
    THEN [map EXCEPT ![h] = Append(@, entry)]
    ELSE [k \in DOMAIN map \cup {h} |-> IF k = h THEN <<entry>> ELSE map[k]]

\* line 135: keep the hashes that have more than one file
keep_duplicates(map) ==
    [h \in {k \in DOMAIN map : Len(map[k]) > 1} |-> map[h]]

EmptyMap == [h \in {} |-> <<>>]

FdInit ==
    /\ fd_pc = "scan"
    /\ fs \in [Slots -> FileStates]
    /\ roots \in UNION { [1..n -> RootArgs] : n \in 0..MaxRoots }
    /\ min_size \in {0, 2}
    /\ max_size \in {-1, 1}
    /\ extensions \in ExtensionArgs
    /\ ri = 1
    /\ pending = <<>>
    /\ total = 0
    /\ hash_to_files = EmptyMap
    /\ dupes = EmptyMap

FdIdle ==
    /\ fd_pc = "idle"
    /\ fs = [s \in Slots |-> Absent]
    /\ roots = <<>>
    /\ min_size = 0
    /\ max_size = -1
    /\ extensions = NoExtensions
    /\ ri = 1
    /\ pending = <<>>
    /\ total = 0
    /\ hash_to_files = EmptyMap
    /\ dupes = EmptyMap

\* lines 122-123, 85-90: take the next root and start walking it
FdNextRoot ==
    /\ fd_pc = "scan"
    /\ ri <= Len(roots)
    /\ pending' = IF root_exists(resolve(roots[ri])) THEN walk(resolve(roots[ri]))
                  ELSE <<>>
    /\ fd_pc' = "walk"
    /\ UNCHANGED <<fs, roots, min_size, max_size, extensions, ri, total,
                   hash_to_files, dupes>>
    /\ UNCHANGED notFd

\* lines 95-112, 123-132: the walk reaches one file name; if scan_path yields
\* it, find_duplicates counts it, hashes it and files it under its hash
FdScanFile ==
    /\ fd_pc = "walk"
    /\ pending # <<>>
    /\ LET slot == Head(pending) IN
         IF scan_yields(slot)
         THEN /\ total' = total + 1
              /\ hash_to_files' =
                    IF file_hash(slot) = "none" THEN hash_to_files
                    ELSE add_file(hash_to_files, file_hash(slot), slot)
         ELSE UNCHANGED <<total, hash_to_files>>
    /\ pending' = Tail(pending)
    /\ UNCHANGED <<fd_pc, fs, roots, min_size, max_size, extensions, ri, dupes>>
    /\ UNCHANGED notFd

\* the walk of the current root is exhausted
FdEndWalk ==
    /\ fd_pc = "walk"
    /\ pending = <<>>
    /\ ri' = ri + 1
    /\ fd_pc' = "scan"
    /\ UNCHANGED <<fs, roots, min_size, max_size, extensions, pending, total,
                   hash_to_files, dupes>>
    /\ UNCHANGED notFd

\* lines 133-135: every root is scanned; return the groups of duplicates
FdReturn ==
    /\ fd_pc = "scan"
    /\ ri > Len(roots)
    /\ dupes' = keep_duplicates(hash_to_files)
    /\ fd_pc' = "done"
    /\ UNCHANGED <<fs, roots, min_size, max_size, extensions, ri, pending,
                   total, hash_to_files>>
    /\ UNCHANGED notFd

-----------------------------------------------------------------------------
(* code-workspace/import_payroll_bland_david.py                            *)
(*                                                                         *)
(* A sheet row is a record of the cells main() reads.  Rows loaded from    *)
(* Excel or CSV always have 33 cells, so the len(row) < 9 test never       *)
(* fires and is left out.  Cells: employee is a display name ("" = empty), *)
(* date an Excel serial number (0 = empty), start and finish a time in     *)
(* minutes after midnight (-1 = empty), hours <<h, m>> for "h:mm", brk     *)
(* <<h, m>> for "h:mm" or <<n>> for "n" (<<>> = empty), plants and mobs    *)
(* the Plant and Mob cells.  Columns that only fill the payload are not in *)
(* the model.                                                              *)

\* table users_setup: display_name -> user_id ("" = no such user)
users_setup(name) ==
    CASE name = "alice" -> "u1" [] name = "bob" -> "u2" [] OTHER -> ""

\* table large_plant: plant_no -> id ("" = no such plant)
plant_by_no(no) == IF no = "P1" THEN "lp1" ELSE ""

\* int(lower[5:]) of a cell that starts with "site ", 0 for any other cell
SiteNumber(e) ==
    CASE e = "Site 3" -> 3 [] e = "site 20" -> 20 [] e = "Site 21" -> 21
      [] OTHER -> 0

\* _is_site_placeholder(employee_val)
_is_site_placeholder(e) == SiteNumber(e) >= 1 /\ SiteNumber(e) <= 20

\* _parse_date(v) on an Excel serial number: serial > 0, else None (0)
_parse_date(v) == IF v > 0 THEN v ELSE 0

\* _parse_hours_to_minutes(v)
_parse_hours_to_minutes(v) == IF v = <<>> THEN 0 ELSE v[1] * 60 + v[2]

\* _parse_break_minutes(v)
_parse_break_minutes(v) ==
    IF v = <<>> THEN 0
    ELSE IF Len(v) = 2 THEN v[1] * 60 + v[2]
    ELSE v[1]

\* a timestamp as text: date, time of day, separator and what follows the
\* seconds; null = TRUE stands for None
NullText == [null |-> TRUE, d |-> 0, t |-> 0, sep |-> "T", tail |-> ""]

\* datetime.combine(d, t).strftime("%Y-%m-%dT%H:%M:%S.000Z")
Iso(d, t) == [null |-> FALSE, d |-> d, t |-> t, sep |-> "T", tail |-> ".000Z"]

\* len() of the part of a timestamp text after the 19 characters of
\* YYYY-MM-DD?HH:MM:SS
TailLen(tail) ==
    CASE tail = ".000Z" -> 5 [] tail = "+00:00" -> 6 [] tail = "+00" -> 3
      [] tail = "Z" -> 1 [] OTHER -> 0

\* the formats a select may render a stored timestamp in
DbFormats == { [sep |-> "T", tail |-> "+00:00"], [sep |-> " ", tail |-> "+00"] }

\* how a select renders the stored start_time x
Render(x) ==
    IF x.null THEN NullText
    ELSE [null |-> FALSE, d |-> x.d, t |-> x.t, sep |-> db_fmt.sep, tail |-> db_fmt.tail]

\* what the database stores for a timestamp text
Stored(text) == [null |-> text.null, d |-> text.d, t |-> text.t]

NoKey == [uid |-> "", w |-> 0, s |-> NullText]

\* main._dup_key(uid, wd, st): every text the model renders has the 19
\* characters, so s[:19].replace(" ", "T") + "Z" is the branch taken
_dup_key(uid, wd, st) ==
    IF uid = "" \/ wd = 0 \/ st.null THEN NoKey
    ELSE IF 19 + TailLen(st.tail) >= 19
         THEN [uid |-> uid, w |-> wd,
               s |-> [null |-> FALSE, d |-> st.d, t |-> st.t, sep |-> "T", tail |-> "Z"]]
         ELSE [uid |-> uid, w |-> wd, s |-> st]

use_multi_employee == week_given \/ selected_employees.given

\* resolve_user_id(display_name_raw) of multi-employee mode
resolve_multi(e) ==
    IF e = "" \/ _is_site_placeholder(e) THEN "" ELSE users_setup(e)

\* resolve_user_id as the row loop sees it (_single_user_resolve in
\* single-user mode)
resolve_user_id(e) == IF use_multi_employee THEN resolve_multi(e) ELSE user_id

\* user_cache after resolve_user_id(e)
cache_after(e) ==
    IF use_multi_employee /\ resolve_multi(e) # "" THEN user_cache \cup {e}
    ELSE user_cache

\* lines 494-500: the first employee cell that is no placeholder ("" = none)
RECURSIVE first_employee(_, _)
first_employee(rs, i) ==
    IF i > Len(rs) THEN ""
    ELSE IF rs[i].employee # "" /\ ~_is_site_placeholder(rs[i].employee)
         THEN rs[i].employee
         ELSE first_employee(rs, i + 1)

\* lines 501-511: the user of single-user mode; neither "Bland, David" nor
\* "Blank, David" is in users_setup
single_user == users_setup(first_employee(rows, 1))

\* lines 566-575
dates_in_rows == { _parse_date(rows[i].date) : i \in DOMAIN rows } \ {0}

SetMin(S) == CHOOSE x \in S : \A y \in S : x <= y
SetMax(S) == CHOOSE x \in S : \A y \in S : x >= y

\* lines 576-578
user_ids_to_check ==
    IF ~use_multi_employee /\ user_id # "" THEN {user_id}
    ELSE { users_setup(n) : n \in user_cache }

\* line 581: the select on time_periods
existing_rows ==
    { time_periods[i] : i \in
        { j \in DOMAIN time_periods :
            /\ time_periods[j].work_date >= SetMin(dates_in_rows)
            /\ time_periods[j].work_date <= SetMax(dates_in_rows)
            /\ time_periods[j].user_id \in user_ids_to_check } }

\* lines 582-585
keys_of(found) ==
    { _dup_key(x.user_id, x.work_date, Render(x.start_time)) : x \in found } \ {NoKey}

\* round(break_min / 15) * 15; break_min is an integer, so no tie arises
Round15(m) == ((2 * m + 15) \div 30) * 15

\* lines 736-753: the single break of a rounded break of at most 30 minutes
one_break(r, tp_id, b15) ==
    LET outside == r.start # -1 /\ r.finish # -1
                   /\ (780 < r.start \/ 780 > r.finish)
        fin == IF outside
               THEN (r.finish \div 60) * 60 + ((r.finish % 60) \div 15) * 15
               ELSE 780 + b15
        st  == IF outside THEN fin - b15 ELSE 780
    IN << [table |-> "breaks",
           rec |-> [time_period_id |-> tp_id, break_start |-> st,
                    break_finish |-> fin, display_order |-> 0]] >>

\* two breaks with the longer one in the morning
two_breaks_longer_first(tp_id, b15) ==
    LET h1 == (b15 + 1) \div 2
        h2 == b15 - h1
    IN << [table |-> "breaks",
           rec |-> [time_period_id |-> tp_id, break_start |-> 600,
                    break_finish |-> 600 + h1, display_order |-> 0]],
          [table |-> "breaks",
           rec |-> [time_period_id |-> tp_id, break_start |-> 780,
                    break_finish |-> 780 + h2, display_order |-> 1]] >>

\* lines 755-768: the two breaks of a longer rounded break
two_breaks(tp_id, b15) ==
    LET h1 == (b15 + 1) \div 2
        h2 == b15 - h1
        b1 == IF h1 < h2 THEN h2 ELSE h1
        b2 == IF h1 < h2 THEN h1 ELSE h2
    IN << [table |-> "breaks",
           rec |-> [time_period_id |-> tp_id, break_start |-> 600,
                    break_finish |-> 600 + b2, display_order |-> 0]],
          [table |-> "breaks",
           rec |-> [time_period_id |-> tp_id, break_start |-> 780,
                    break_finish |-> 780 + b1, display_order |-> 1]] >>

\* lines 733-768: the inserts into time_period_breaks for a row
break_inserts(r, tp_id) ==
    LET break_min == _parse_break_minutes(r.brk) IN
    IF break_min > 0
    THEN IF Round15(break_min) <= 30
         THEN one_break(r, tp_id, Round15(break_min))
         ELSE two_breaks(tp_id, Round15(break_min))
    ELSE <<>>

\* lines 770-804: the inserts into a fleet table for the Plant or Mob cells
RECURSIVE fleet_inserts(_, _, _, _)
fleet_inserts(cells, i, tp_id, table) ==
    IF i > Len(cells) THEN <<>>
    ELSE (IF cells[i] # "" /\ plant_by_no(cells[i]) # ""
          THEN << [table |-> table,
                   rec |-> [time_period_id |-> tp_id,
                            large_plant_id |-> plant_by_no(cells[i]),
                            display_order |-> i - 1]] >>
          ELSE <<>>)
         \o fleet_inserts(cells, i + 1, tp_id, table)

\* lines 733-804: every insert that follows the time_periods insert, in order
child_inserts(r, tp_id) ==
    break_inserts(r, tp_id)
    \o fleet_inserts(r.plants, 1, tp_id, "used")
    \o fleet_inserts(r.mobs, 1, tp_id, "mob")

\* the records of one table among a list of inserts
RecsFor(ins, table) ==
    LET sel == SelectSeq(ins, LAMBDA c : c.table = table)
    IN [i \in 1..Len(sel) |-> sel[i].rec]

\* lines 601-685: what becomes of a row before any write
row_class(r) ==
    LET uid == resolve_user_id(r.employee)
        wd  == _parse_date(r.date)
        st  == IF r.start # -1 THEN Iso(wd, r.start) ELSE NullText
        k   == _dup_key(uid, wd, st)
    IN IF _is_site_placeholder(r.employee) THEN "site_placeholder"
       ELSE IF uid = "" THEN "unknown_employee"
       ELSE IF selected_employees.given /\ r.employee \notin selected_employees.names
            THEN "not_selected"
       ELSE IF wd = 0 THEN "no_date"
       ELSE IF _parse_hours_to_minutes(r.hours) <= 0 THEN "no_work"
       ELSE IF k # NoKey /\ k \in existing_keys THEN "duplicate"
       ELSE "import"

\* lines 681-682: dup_k of a row
row_key(r) ==
    _dup_key(resolve_user_id(r.employee), _parse_date(r.date),
             IF r.start # -1 THEN Iso(_parse_date(r.date), r.start) ELSE NullText)

\* lines 688-694: the time_periods record the insert stores
new_period(r) ==
    [id |-> Len(time_periods) + 1,
     user_id |-> resolve_user_id(r.employee),
     work_date |-> _parse_date(r.date),
     start_time |-> Stored(IF r.start # -1 THEN Iso(_parse_date(r.date), r.start)
                           ELSE NullText),
     project_id |-> 0,
     large_plant_id |-> "",
     run |-> run]

NoPlants == <<>>

RowA ==
    [employee |-> "alice", date |-> 1, start |-> 480, finish |-> 990,
     hours |-> <<8, 0>>, brk |-> <<0, 30>>, plants |-> NoPlants, mobs |-> NoPlants]
RowA0 ==
    [employee |-> "alice", date |-> 1, start |-> -1, finish |-> -1,
     hours |-> <<8, 0>>, brk |-> <<5>>, plants |-> NoPlants, mobs |-> NoPlants]
RowB ==
    [employee |-> "bob", date |-> 2, start |-> 540, finish |-> 1020,
     hours |-> <<7, 0>>, brk |-> <<1, 0>>, plants |-> <<"P1", "", "P9">>,
     mobs |-> <<"P1">>]
RowC ==
    [employee |-> "alice", date |-> 2, start |-> 840, finish |-> 1090,
     hours |-> <<4, 0>>, brk |-> <<20>>, plants |-> NoPlants, mobs |-> NoPlants]
RowD ==
    [employee |-> "bob", date |-> 3, start |-> 420, finish |-> 1020,
     hours |-> <<9, 0>>, brk |-> <<0, 45>>, plants |-> NoPlants, mobs |-> NoPlants]
RowSite ==
    [employee |-> "Site 3", date |-> 1, start |-> 480, finish |-> 990,
     hours |-> <<8, 0>>, brk |-> <<>>, plants |-> NoPlants, mobs |-> NoPlants]
RowZed ==
    [employee |-> "Site 21", date |-> 1, start |-> 480, finish |-> 990,
     hours |-> <<8, 0>>, brk |-> <<>>, plants |-> NoPlants, mobs |-> NoPlants]
RowNoDate ==
    [employee |-> "alice", date |-> 0, start |-> 480, finish |-> 990,
     hours |-> <<8, 0>>, brk |-> <<>>, plants |-> NoPlants, mobs |-> NoPlants]
RowNoWork ==
    [employee |-> "bob", date |-> 1, start |-> -1, finish |-> -1,
     hours |-> <<0, 0>>, brk |-> <<>>, plants |-> NoPlants, mobs |-> NoPlants]

\* the rows a sheet may hold
SheetRows == {RowA, RowA0, RowB, RowC, RowD, RowSite, RowZed, RowNoDate, RowNoWork}

\* a time_periods row that was there before the first run
OldPeriod(uid, wd, t) ==
    [id |-> 1, user_id |-> uid, work_date |-> wd,
     start_time |-> [null |-> t = -1, d |-> IF t = -1 THEN 0 ELSE wd,
                     t |-> IF t = -1 THEN 0 ELSE t],
     project_id |-> 0,
     large_plant_id |-> "",
     run |-> 0]

\* an imported row of an earlier version of the script: its project is one
\* whose short_description names a plant
OldProjectPeriod == [OldPeriod("u2", 3, 480) EXCEPT !.project_id = 1]

\* the states of time_periods before the first run
OldTables ==
    { <<>>, <<OldPeriod("u1", 1, 480)>>, <<OldPeriod("u1", 1, -1)>>,
      <<OldProjectPeriod>> }

\* _plant_id_for_short_desc(projects_by_id[project_id]), lines 335-361
\* ("" = the description names no plant)
plant_id_for_project(project_id) == IF project_id = 1 THEN "pl1" ELSE ""

\* _fix_imported_project_to_plant, lines 297-370: the imported rows whose
\* project names a plant are moved to that plant
fix_imported_rows(table) ==
    [i \in DOMAIN table |->
        IF table[i].project_id # 0 /\ plant_id_for_project(table[i].project_id) # ""
        THEN [table[i] EXCEPT !.large_plant_id = plant_id_for_project(table[i].project_id),
                              !.project_id = 0]
        ELSE table[i]]

NoSelection == [given |-> FALSE, names |-> {}]

ImpInit ==
    /\ imp_pc = "start"
    /\ run = 1
    /\ diagnose \in BOOLEAN
    /\ fix_imported \in BOOLEAN
    /\ \E m \in { <<FALSE, NoSelection>>, <<TRUE, NoSelection>>,
                  <<FALSE, [given |-> TRUE, names |-> {"alice"}]>> } :
          week_given = m[1] /\ selected_employees = m[2]
    /\ rows \in UNION { [1..n -> SheetRows] : n \in 1..MaxSheetRows }
    /\ db_fmt \in DbFormats
    /\ user_cache = {}
    /\ user_id = ""
    /\ existing_keys = {}
    /\ row_idx = 1
    /\ inserted = 0
    /\ skipped_no_date = 0
    /\ skipped_no_work = 0
    /\ skipped_site_placeholder = 0
    /\ skipped_unknown_employee = 0
    /\ skipped_not_selected = 0
    /\ skipped_duplicate = 0
    /\ errors = <<>>
    /\ time_periods \in OldTables
    /\ time_period_breaks = <<>>
    /\ time_period_used_fleet = <<>>
    /\ time_period_mobilised_fleet = <<>>

ImpIdle ==
    /\ imp_pc = "idle"
    /\ run = 1
    /\ diagnose = FALSE
    /\ fix_imported = FALSE
    /\ week_given = FALSE
    /\ selected_employees = NoSelection
    /\ rows = <<>>
    /\ db_fmt = [sep |-> "T", tail |-> "+00:00"]
    /\ user_cache = {}
    /\ user_id = ""
    /\ existing_keys = {}
    /\ row_idx = 1
    /\ inserted = 0
    /\ skipped_no_date = 0
    /\ skipped_no_work = 0
    /\ skipped_site_placeholder = 0
    /\ skipped_unknown_employee = 0
    /\ skipped_not_selected = 0
    /\ skipped_duplicate = 0
    /\ errors = <<>>
    /\ time_periods = <<>>
    /\ time_period_breaks = <<>>
    /\ time_period_used_fleet = <<>>
    /\ time_period_mobilised_fleet = <<>>

\* lines 447-520: resolve the users; single-user mode gives up when the user
\* is not in users_setup
ImpStart ==
    /\ imp_pc = "start"
    /\ ~fix_imported
    /\ IF use_multi_employee
       THEN /\ user_cache' =
                 IF selected_employees.given
                 THEN { n \in selected_employees.names : resolve_multi(n) # "" }
                 ELSE { rows[i].employee : i \in
                          { j \in DOMAIN rows : resolve_multi(rows[j].employee) # "" } }
            /\ user_id' = ""
            /\ imp_pc' = "prefetch"
       ELSE /\ user_id' = single_user
            /\ imp_pc' = IF single_user = "" THEN "done" ELSE "prefetch"
            /\ UNCHANGED user_cache
    /\ UNCHANGED <<run, impArgs, existing_keys, row_idx, impCounters, impTables>>
    /\ UNCHANGED notImp

\* lines 414-417: with --fix-imported main runs the fix and returns
ImpFixImported ==
    /\ imp_pc = "start"
    /\ fix_imported
    /\ time_periods' = fix_imported_rows(time_periods)
    /\ imp_pc' = "done"
    /\ UNCHANGED <<run, impArgs, user_cache, user_id, existing_keys, row_idx,
                   impCounters, time_period_breaks, time_period_used_fleet,
                   time_period_mobilised_fleet>>
    /\ UNCHANGED notImp

\* lines 564-587: collect the keys of the rows already in time_periods
ImpPrefetch ==
    /\ imp_pc = "prefetch"
    /\ existing_keys' =
          IF dates_in_rows # {} /\ user_ids_to_check # {}
          THEN keys_of(existing_rows) ELSE {}
    /\ imp_pc' = "loop"
    /\ UNCHANGED <<run, impArgs, user_cache, user_id, row_idx, impCounters, impTables>>
    /\ UNCHANGED notImp

\* lines 580-587: the select raises; except Exception: pass
ImpPrefetchFails ==
    /\ imp_pc = "prefetch"
    /\ dates_in_rows # {} /\ user_ids_to_check # {}
    /\ imp_pc' = "loop"
    /\ UNCHANGED <<run, impArgs, user_cache, user_id, existing_keys, row_idx,
                   impCounters, impTables>>
    /\ UNCHANGED notImp

\* lines 598-627, 680-685: a row that is skipped
ImpSkipRow ==
    /\ imp_pc = "loop"
    /\ row_idx <= Len(rows)
    /\ LET r == rows[row_idx]
           c == row_class(r) IN
         /\ c # "import"
         /\ skipped_site_placeholder' =
               skipped_site_placeholder + (IF c = "site_placeholder" THEN 1 ELSE 0)
         /\ skipped_unknown_employee' =
               skipped_unknown_employee + (IF c = "unknown_employee" THEN 1 ELSE 0)
         /\ skipped_not_selected' =
               skipped_not_selected + (IF c = "not_selected" THEN 1 ELSE 0)
         /\ skipped_no_date' = skipped_no_date + (IF c = "no_date" THEN 1 ELSE 0)
         /\ skipped_no_work' = skipped_no_work + (IF c = "no_work" THEN 1 ELSE 0)
         /\ skipped_duplicate' = skipped_duplicate + (IF c = "duplicate" THEN 1 ELSE 0)
         /\ user_cache' = IF c = "site_placeholder" THEN user_cache
                          ELSE cache_after(r.employee)
    /\ row_idx' = row_idx + 1
    /\ UNCHANGED <<imp_pc, run, impArgs, user_id, existing_keys, inserted, errors,
                   impTables>>
    /\ UNCHANGED notImp

\* lines 714-720: --diagnose prints the row and counts it
ImpDiagnoseRow ==
    /\ imp_pc = "loop"
    /\ row_idx <= Len(rows)
    /\ row_class(rows[row_idx]) = "import"
    /\ diagnose
    /\ inserted' = inserted + 1
    /\ user_cache' = cache_after(rows[row_idx].employee)
    /\ row_idx' = row_idx + 1
    /\ UNCHANGED <<imp_pc, run, impArgs, user_id, existing_keys, skipped_no_date,
                   skipped_no_work, skipped_site_placeholder,
                   skipped_unknown_employee, skipped_not_selected,
                   skipped_duplicate, errors, impTables>>
    /\ UNCHANGED notImp

\* what is the same in every attempt to insert the row
ImpAttempt ==
    /\ imp_pc = "loop"
    /\ row_idx <= Len(rows)
    /\ row_class(rows[row_idx]) = "import"
    /\ ~diagnose
    /\ user_cache' = cache_after(rows[row_idx].employee)
    /\ row_idx' = row_idx + 1
    /\ UNCHANGED <<imp_pc, run, impArgs, user_id, skipped_no_date,
                   skipped_no_work, skipped_site_placeholder,
                   skipped_unknown_employee, skipped_not_selected,
                   skipped_duplicate>>
    /\ UNCHANGED notImp

\* lines 722-731: the period is stored, the key remembered
ImpStorePeriod ==
    /\ time_periods' = Append(time_periods, new_period(rows[row_idx]))
    /\ inserted' = inserted + 1
    /\ existing_keys' =
          IF row_key(rows[row_idx]) # NoKey
          THEN existing_keys \cup {row_key(rows[row_idx])}
          ELSE existing_keys

\* the child inserts ins reach their tables
ImpStoreChildren(ins) ==
    /\ time_period_breaks' = time_period_breaks \o RecsFor(ins, "breaks")
    /\ time_period_used_fleet' = time_period_used_fleet \o RecsFor(ins, "used")
    /\ time_period_mobilised_fleet' = time_period_mobilised_fleet \o RecsFor(ins, "mob")

\* lines 722-804: the row is inserted with its breaks and fleet
ImpInsertRow ==
    /\ ImpAttempt
    /\ ImpStorePeriod
    /\ ImpStoreChildren(child_inserts(rows[row_idx], Len(time_periods) + 1))
    /\ UNCHANGED errors

\* lines 723, 807-822: the time_periods insert raises
ImpInsertRaises ==
    /\ ImpAttempt
    /\ errors' = Append(errors, [row |-> row_idx, what |-> "api error"])
    /\ UNCHANGED <<existing_keys, inserted, impTables>>

\* lines 724-726: the insert returns no data
ImpInsertNoData ==
    /\ ImpAttempt
    /\ errors' = Append(errors, [row |-> row_idx, what |-> "no data"])
    /\ UNCHANGED <<existing_keys, inserted, impTables>>

\* lines 733-822: an insert of a break or of a fleet entry raises; the ones
\* before it are stored
ImpChildRaises ==
    /\ ImpAttempt
    /\ ImpStorePeriod
    /\ LET ins == child_inserts(rows[row_idx], Len(time_periods) + 1) IN
         /\ ins # <<>>
         /\ \E n \in 0..(Len(ins) - 1) : ImpStoreChildren(SubSeq(ins, 1, n))
    /\ errors' = Append(errors, [row |-> row_idx, what |-> "api error"])

\* lines 824-844: the loop is over, the summary is printed
ImpFinish ==
    /\ imp_pc = "loop"
    /\ row_idx > Len(rows)
    /\ imp_pc' = "done"
    /\ UNCHANGED <<run, impArgs, user_cache, user_id, existing_keys, row_idx,
                   impCounters, impTables>>
    /\ UNCHANGED notImp

\* the script is run again on the same sheet: main() starts over, the
\* tables keep what the earlier run wrote
ImpRerun ==
    /\ imp_pc = "done"
    /\ run < MaxRuns
    /\ run' = run + 1
    /\ imp_pc' = "start"
    /\ user_cache' = {}
    /\ user_id' = ""
    /\ existing_keys' = {}
    /\ row_idx' = 1
    /\ inserted' = 0
    /\ skipped_no_date' = 0
    /\ skipped_no_work' = 0
    /\ skipped_site_placeholder' = 0
    /\ skipped_unknown_employee' = 0
    /\ skipped_not_selected' = 0
    /\ skipped_duplicate' = 0
    /\ errors' = <<>>
    /\ UNCHANGED <<impArgs, impTables>>
    /\ UNCHANGED notImp

-----------------------------------------------------------------------------
(* scheduled_tasks/sync_projects.py and                                    *)
(* code-workspace/sync_projects_access_to_supabase.py                      *)
(*                                                                         *)
(* The two scripts read the same Access table and write the same remote    *)
(* projects table; they differ in map_fields, in the column the upsert     *)
(* matches on and in what main() returns.  The Access table holds the      *)
(* records with Enabled = True.  A remote row also carries access_id, the  *)
(* ID of the Access record it was inserted for (0 for a row that was there *)
(* before); it is bookkeeping of the model, not a column.                  *)

T_A == <<"A">>
T_B == <<"B">>
T_F == <<"F">>
T_G == <<"G">>
T_X == <<"X">>
None == <<>>

\* cells of the Job_Number column
JobCells == {None, T_A, <<" ", "A">>, T_B}

\* cells of the Folder_Description column
NameCells == {None, T_F, T_G}

\* the Access record with the given ID; record 1 has an address
AccessRecord(n, job, name) ==
    [ID |-> n, Job_Number |-> job, Folder_Description |-> name,
     Address |-> IF n = 1 THEN T_X ELSE None]

\* the Access tables of n records
AccessTables(n) ==
    { [i \in 1..n |-> AccessRecord(i, jobs[i], names[i])] :
        jobs \in [1..n -> JobCells], names \in [1..n -> NameCells] }

\* a row of the remote projects table
RemoteRow(n, pn, name, aid) ==
    [id |-> n, project_number |-> pn, project_name |-> name, access_id |-> aid]

\* the remote tables before the first sync: at most one row per project_number
RemoteTables ==
    { <<>>,
      << RemoteRow(1, T_A, T_G, 0) >>,
      << RemoteRow(1, T_B, T_F, 0), RemoteRow(2, T_A, T_F, 0) >> }

\* the --project arguments (None: a full sync)
ProjectArgs == {None, T_A, <<"Z">>}

\* value.strip() if value.strip() else None, for a text cell
text_field(v) == Strip(v)

\* f"{project_number} - {address}"
with_address(pn, address) == pn \o <<" ", "-", " ">> \o address

\* scheduled_tasks map_fields, lines 288-293: a record without project_number
\* is skipped
sched_mappable(rec) == text_field(rec.Job_Number) # None

\* scheduled_tasks map_fields, lines 245-320
sched_map_fields(rec) ==
    LET pn == text_field(rec.Job_Number)
        nm == text_field(rec.Folder_Description)
    IN [project_number |-> pn,
        project_name |->
            IF nm # None THEN nm
            ELSE IF Strip(rec.Address) # None THEN with_address(pn, Strip(rec.Address))
            ELSE pn,
        access_id |-> rec.ID]

\* str(ID) for the record IDs of the model
IdText(n) == IF n = 1 THEN <<"1">> ELSE IF n = 2 THEN <<"2">> ELSE <<"3">>

\* code-workspace map_fields, lines 232-307: never None
ws_map_fields(rec) ==
    LET pn == text_field(rec.Job_Number)
        nm == text_field(rec.Folder_Description)
    IN [project_number |-> pn,
        project_name |->
            IF nm # None THEN nm
            ELSE IF rec.Job_Number # None
                 THEN IF Strip(rec.Address) # None
                      THEN with_address(Strip(rec.Job_Number), Strip(rec.Address))
                      ELSE Strip(rec.Job_Number)
                 ELSE <<"P", "r", "o", "j", "e", "c", "t", " ">> \o IdText(rec.ID),
        access_id |-> rec.ID]

\* scheduled_tasks lines 358-361: [p for p in map(map_fields) if p is not None]
RECURSIVE sched_map_all(_)
sched_map_all(list) ==
    IF list = <<>> THEN <<>>
    ELSE (IF sched_mappable(Head(list)) THEN <<sched_map_fields(Head(list))>> ELSE <<>>)
         \o sched_map_all(Tail(list))

\* code-workspace lines 342-345: every record is mapped
ws_map_all(list) == [i \in DOMAIN list |-> ws_map_fields(list[i])]

\* a select that looks the row up by its name instead
sched_match_by_name(r, project) == r.project_name = project.project_name

\* scheduled_tasks line 385: select("id").eq("project_number", project_number)
sched_match(r, project) == r.project_number = project.project_number

\* code-workspace line 363: select("id").eq("project_name", project_name)
ws_match(r, project) == r.project_name = project.project_name

\* scheduled_tasks lines 385-390: existing.data[0]["id"], the id of the first
\* row the select returns (0 = no row)
sched_first_match(table, project) ==
    LET hits == {i \in DOMAIN table : sched_match(table[i], project)} IN
    IF hits = {} THEN 0 ELSE table[SetMin(hits)].id

\* code-workspace lines 363-367: existing.data[0]["id"] (0 = no row)
ws_first_match(table, project) ==
    LET hits == {i \in DOMAIN table : ws_match(table[i], project)} IN
    IF hits = {} THEN 0 ELSE table[SetMin(hits)].id

\* scheduled_tasks lines 392-393: update every field but project_number
sched_update(table, rid, project) ==
    [i \in DOMAIN table |->
        IF table[i].id = rid
        THEN [table[i] EXCEPT !.project_name = project.project_name]
        ELSE table[i]]

\* code-workspace lines 369-370: update every field but project_name
ws_update(table, rid, project) ==
    [i \in DOMAIN table |->
        IF table[i].id = rid
        THEN [table[i] EXCEPT !.project_number = project.project_number]
        ELSE table[i]]

\* insert(project)
insert_project(table, project) ==
    Append(table, RemoteRow(Len(table) + 1, project.project_number,
                            project.project_name, project.access_id))

\* scheduled_tasks lines 385-402: the upsert of one project
sched_upsert(table, project) ==
    LET rid == sched_first_match(table, project) IN
    IF rid # 0 THEN sched_update(table, rid, project)
    ELSE insert_project(table, project)

\* code-workspace lines 363-379: the upsert of one project
ws_upsert(table, project) ==
    LET rid == ws_first_match(table, project) IN
    IF rid # 0 THEN ws_update(table, rid, project)
    ELSE insert_project(table, project)

\* read_access_projects, lines 167-185: the records the query returns
read_access_projects(arg) ==
    SelectSeq(access, LAMBDA rec : arg = None \/ rec.Job_Number = arg)

SyncInit ==
    /\ sync_pc = "start"
    /\ sync_run = 1
    /\ access \in UNION { AccessTables(n) : n \in 0..MaxAccess }
    /\ remote_projects \in RemoteTables
    /\ project_number_arg = None
    /\ projects = <<>>
    /\ mapped_projects = <<>>
    /\ sync_idx = 1
    /\ updated_count = 0
    /\ inserted_count = 0
    /\ error_count = 0
    /\ exit_code = -1
    /\ sync_failure = "none"

SyncIdle ==
    /\ sync_pc = "idle"
    /\ sync_run = 1
    /\ access = <<>>
    /\ remote_projects = <<>>
    /\ project_number_arg = None
    /\ projects = <<>>
    /\ mapped_projects = <<>>
    /\ sync_idx = 1
    /\ updated_count = 0
    /\ inserted_count = 0
    /\ error_count = 0
    /\ exit_code = -1
    /\ sync_failure = "none"

\* scheduled_tasks main, lines 460-487: read Access; nothing read ends the run
SsRead ==
    /\ sync_pc = "start"
    /\ \E arg \in ProjectArgs :
         /\ project_number_arg' = arg
         /\ projects' = read_access_projects(arg)
         /\ IF read_access_projects(arg) = <<>>
            THEN /\ exit_code' = IF arg # None THEN 1 ELSE 0
                 /\ sync_pc' = "done"
            ELSE /\ sync_pc' = "sync"
                 /\ UNCHANGED exit_code
    /\ UNCHANGED <<sync_run, access, remote_projects, mapped_projects, sync_idx,
                   updated_count, inserted_count, error_count>>
    /\ UNCHANGED sync_failure
    /\ UNCHANGED notSync

\* scheduled_tasks main, lines 463-477: read_access_projects raises
SsReadFails ==
    /\ sync_pc = "start"
    /\ \E arg \in ProjectArgs : project_number_arg' = arg
    /\ exit_code' = 1
    /\ sync_pc' = "done"
    /\ UNCHANGED <<sync_run, access, remote_projects, projects, mapped_projects,
                   sync_idx, updated_count, inserted_count, error_count>>
    /\ sync_failure' = "read"
    /\ UNCHANGED notSync

\* scheduled_tasks sync_to_supabase, lines 335-365: map the records; with no
\* valid project it returns (0, 0, 0) and main returns 0
SsMap ==
    /\ sync_pc = "sync"
    /\ LET mapped == sched_map_all(projects) IN
         /\ mapped_projects' = mapped
         /\ IF mapped = <<>>
            THEN /\ exit_code' = 0
                 /\ sync_pc' = "done"
            ELSE /\ sync_pc' = "loop"
                 /\ UNCHANGED exit_code
    /\ UNCHANGED <<sync_run, access, remote_projects, project_number_arg, projects,
                   sync_idx, updated_count, inserted_count, error_count>>
    /\ UNCHANGED sync_failure
    /\ UNCHANGED notSync

\* scheduled_tasks lines 426-430, 516-532: sync_to_supabase raises
SsSyncRaises ==
    /\ sync_pc = "sync"
    /\ exit_code' = 1
    /\ sync_pc' = "done"
    /\ UNCHANGED <<sync_run, access, remote_projects, project_number_arg, projects,
                   mapped_projects, sync_idx, updated_count, inserted_count,
                   error_count>>
    /\ sync_failure' = "sync"
    /\ UNCHANGED notSync

\* scheduled_tasks lines 373-402: one project is updated or inserted; the test
\* of line 378 never fires, map_fields having dropped such records
SsUpsert ==
    /\ sync_pc = "loop"
    /\ sync_idx <= Len(mapped_projects)
    /\ LET project == mapped_projects[sync_idx] IN
         IF project.project_number = None
         THEN /\ error_count' = error_count + 1
              /\ UNCHANGED <<remote_projects, updated_count, inserted_count>>
         ELSE /\ remote_projects' = sched_upsert(remote_projects, project)
              /\ IF sched_first_match(remote_projects, project) # 0
                 THEN updated_count' = updated_count + 1 /\ UNCHANGED inserted_count
                 ELSE inserted_count' = inserted_count + 1 /\ UNCHANGED updated_count
              /\ UNCHANGED error_count
    /\ sync_idx' = sync_idx + 1
    /\ UNCHANGED <<sync_pc, sync_run, access, project_number_arg, projects,
                   mapped_projects, exit_code>>
    /\ UNCHANGED sync_failure
    /\ UNCHANGED notSync

\* scheduled_tasks lines 403-405: the select, update or insert raises
SsUpsertRaises ==
    /\ sync_pc = "loop"
    /\ sync_idx <= Len(mapped_projects)
    /\ error_count' = error_count + 1
    /\ sync_idx' = sync_idx + 1
    /\ UNCHANGED <<sync_pc, sync_run, access, remote_projects, project_number_arg,
                   projects, mapped_projects, updated_count, inserted_count,
                   exit_code>>
    /\ UNCHANGED sync_failure
    /\ UNCHANGED notSync

\* a main that reports success whatever the error count
SsFinish_always_ok ==
    /\ sync_pc = "loop"
    /\ sync_idx > Len(mapped_projects)
    /\ exit_code' = 0
    /\ sync_pc' = "done"
    /\ UNCHANGED <<sync_run, access, remote_projects, project_number_arg, projects,
                   mapped_projects, sync_idx, updated_count, inserted_count,
                   error_count, sync_failure>>
    /\ UNCHANGED notSync

\* scheduled_tasks lines 417-424, 491-514: the counts are returned, main
\* returns 0 if there was no error and 1 otherwise
SsFinish ==
    /\ sync_pc = "loop"
    /\ sync_idx > Len(mapped_projects)
    /\ exit_code' = IF error_count = 0 THEN 0 ELSE 1
    /\ sync_pc' = "done"
    /\ UNCHANGED <<sync_run, access, remote_projects, project_number_arg, projects,
                   mapped_projects, sync_idx, updated_count, inserted_count,
                   error_count>>
    /\ UNCHANGED sync_failure
    /\ UNCHANGED notSync

\* between two syncs the project name of one record is changed in Access
SyncEditAccess ==
    /\ sync_pc = "done"
    /\ sync_run < MaxSyncRuns
    /\ \E i \in DOMAIN access, name \in NameCells :
         /\ name # access[i].Folder_Description
         /\ access' = [access EXCEPT ![i].Folder_Description = name]
    /\ sync_pc' = "edited"
    /\ UNCHANGED <<sync_run, remote_projects, project_number_arg, projects,
                   mapped_projects, sync_idx, updated_count, inserted_count,
                   error_count, exit_code>>
    /\ UNCHANGED sync_failure
    /\ UNCHANGED notSync

\* the script is started again
SyncRerun ==
    /\ sync_pc \in {"done", "edited"}
    /\ sync_run < MaxSyncRuns
    /\ sync_run' = sync_run + 1
    /\ sync_pc' = "start"
    /\ project_number_arg' = None
    /\ projects' = <<>>
    /\ mapped_projects' = <<>>
    /\ sync_idx' = 1
    /\ updated_count' = 0
    /\ inserted_count' = 0
    /\ error_count' = 0
    /\ exit_code' = -1
    /\ UNCHANGED <<access, remote_projects>>
    /\ sync_failure' = "none"
    /\ UNCHANGED notSync

\* code-workspace main, lines 418-448: read Access; nothing read ends the run
WsRead ==
    /\ sync_pc = "start"
    /\ projects' = read_access_projects(None)
    /\ sync_pc' = IF read_access_projects(None) = <<>> THEN "done" ELSE "sync"
    /\ UNCHANGED <<sync_run, access, remote_projects, project_number_arg,
                   mapped_projects, sync_idx, updated_count, inserted_count,
                   error_count, exit_code>>
    /\ UNCHANGED sync_failure
    /\ UNCHANGED notSync

\* code-workspace main, lines 421-441: read_access_projects raises
WsReadFails ==
    /\ sync_pc = "start"
    /\ sync_pc' = "done"
    /\ error_count' = error_count + 1
    /\ UNCHANGED <<sync_run, access, remote_projects, project_number_arg, projects,
                   mapped_projects, sync_idx, updated_count, inserted_count,
                   exit_code>>
    /\ sync_failure' = "read"
    /\ UNCHANGED notSync

\* code-workspace sync_to_supabase, lines 319-349: every record is mapped
WsMap ==
    /\ sync_pc = "sync"
    /\ mapped_projects' = ws_map_all(projects)
    /\ sync_pc' = "loop"
    /\ UNCHANGED <<sync_run, access, remote_projects, project_number_arg, projects,
                   sync_idx, updated_count, inserted_count, error_count, exit_code>>
    /\ UNCHANGED sync_failure
    /\ UNCHANGED notSync

\* code-workspace lines 397-401, 455-485: sync_to_supabase raises
WsSyncRaises ==
    /\ sync_pc = "sync"
    /\ sync_pc' = "done"
    /\ error_count' = error_count + 1
    /\ UNCHANGED <<sync_run, access, remote_projects, project_number_arg, projects,
                   mapped_projects, sync_idx, updated_count, inserted_count,
                   exit_code>>
    /\ sync_failure' = "sync"
    /\ UNCHANGED notSync

\* code-workspace lines 356-379: one project is updated or inserted; a
\* project without a name is passed over
WsUpsert ==
    /\ sync_pc = "loop"
    /\ sync_idx <= Len(mapped_projects)
    /\ LET project == mapped_projects[sync_idx] IN
         IF project.project_name = None
         THEN UNCHANGED <<remote_projects, updated_count, inserted_count>>
         ELSE /\ remote_projects' = ws_upsert(remote_projects, project)
              /\ IF ws_first_match(remote_projects, project) # 0
                 THEN updated_count' = updated_count + 1 /\ UNCHANGED inserted_count
                 ELSE inserted_count' = inserted_count + 1 /\ UNCHANGED updated_count
    /\ sync_idx' = sync_idx + 1
    /\ UNCHANGED <<sync_pc, sync_run, access, project_number_arg, projects,
                   mapped_projects, error_count, exit_code>>
    /\ UNCHANGED sync_failure
    /\ UNCHANGED notSync

\* code-workspace lines 380-381: the select, update or insert raises; the
\* error is printed
WsUpsertRaises ==
    /\ sync_pc = "loop"
    /\ sync_idx <= Len(mapped_projects)
    /\ error_count' = error_count + 1
    /\ sync_idx' = sync_idx + 1
    /\ UNCHANGED <<sync_pc, sync_run, access, remote_projects, project_number_arg,
                   projects, mapped_projects, updated_count, inserted_count,
                   exit_code>>
    /\ UNCHANGED sync_failure
    /\ UNCHANGED notSync

\* code-workspace lines 392-395, 487-492: the summary is printed
WsFinish ==
    /\ sync_pc = "loop"
    /\ sync_idx > Len(mapped_projects)
    /\ sync_pc' = "done"
    /\ UNCHANGED <<sync_run, access, remote_projects, project_number_arg, projects,
                   mapped_projects, sync_idx, updated_count, inserted_count,
                   error_count, exit_code>>
    /\ UNCHANGED sync_failure
    /\ UNCHANGED notSync

-----------------------------------------------------------------------------
(* update.py                                                               *)
(*                                                                         *)
(* pubspec.yaml is the sequence of its dependency lines "name: ^version";  *)
(* a name is a word (\w+), kept as a sequence of characters.  The other    *)
(* lines of the file match neither regular expression and are left out.    *)

NameChars == {"d", "h"}

\* the words of at most MaxNameLen characters
PackageNames ==
    UNION { [1..n -> NameChars] : n \in 1..MaxNameLen }

\* the version constraints the file starts with
CurrentVersions == {"1.0"}

\* what pub.dev shows as the latest version
NewVersions == {"2.0", "3.0"}

PubspecLine(name, version) == [name |-> name, version |-> version]

\* the manifests of at most MaxLines dependency lines
Pubspecs ==
    UNION { [1..n -> [name : PackageNames, version : CurrentVersions]] :
              n \in 0..MaxLines }

\* does the word p end the word w
IsSuffix(p, w) ==
    /\ Len(p) <= Len(w)
    /\ SubSeq(w, Len(w) - Len(p) + 1, Len(w)) = p

\* is the name among the packages of the list
HasName(list, name) == \E i \in DOMAIN list : list[i] = name

\* get_package_list_from_pubspec, lines 24-31: the keys of dict(findall(...)),
\* in the order of their first line
RECURSIVE package_list(_, _)
package_list(content, seen) ==
    IF content = <<>> THEN seen
    ELSE package_list(Tail(content),
                      IF HasName(seen, Head(content).name) THEN seen
                      ELSE Append(seen, Head(content).name))

get_package_list_from_pubspec(content) == package_list(content, <<>>)

\* does re.sub(rf'{package}: \^[\d\.\+\-]+', ...) match in the line: the
\* pattern is not anchored, so it matches where the package ends the name
sub_matches(package, line) == IsSuffix(package, line.name)

\* line 43: re.sub for one package, over the whole content
sub_package(content, package, new_version) ==
    [i \in DOMAIN content |->
        IF sub_matches(package, content[i])
        THEN PubspecLine(content[i].name, new_version)
        ELSE content[i]]

\* update_pubspec_file, lines 41-43: one re.sub per entry of package_versions,
\* in the order of the dictionary
RECURSIVE update_content(_, _)
update_content(content, versions) ==
    IF versions = <<>> THEN content
    ELSE update_content(
             sub_package(content, Head(versions).package, Head(versions).version),
             Tail(versions))

UpdInit ==
    /\ upd_pc = "read"
    /\ pubspec \in Pubspecs
    /\ pubspec0 = pubspec
    /\ current_packages = <<>>
    /\ upd_idx = 1
    /\ package_versions = <<>>
    /\ lookups = <<>>
    /\ writes = 0

UpdIdle ==
    /\ upd_pc = "idle"
    /\ pubspec = <<>>
    /\ pubspec0 = <<>>
    /\ current_packages = <<>>
    /\ upd_idx = 1
    /\ package_versions = <<>>
    /\ lookups = <<>>
    /\ writes = 0

\* lines 48-54: the packages of the manifest are extracted
UpdRead ==
    /\ upd_pc = "read"
    /\ current_packages' = get_package_list_from_pubspec(pubspec)
    /\ upd_pc' = "fetch"
    /\ UNCHANGED <<pubspec, pubspec0, upd_idx, package_versions, lookups, writes>>
    /\ UNCHANGED notUpd

\* lines 57-60, getNewVersion lines 8-18: the lookup returns a version
UpdFetchVersion ==
    /\ upd_pc = "fetch"
    /\ upd_idx <= Len(current_packages)
    /\ \E v \in NewVersions :
         /\ package_versions' = Append(package_versions,
                [package |-> current_packages[upd_idx], version |-> v])
         /\ lookups' = Append(lookups, "version")
    /\ upd_idx' = upd_idx + 1
    /\ UNCHANGED <<upd_pc, pubspec, pubspec0, current_packages, writes>>
    /\ UNCHANGED notUpd

\* lines 57-60, getNewVersion lines 19-21: the title holds no version, the
\* lookup returns None and the package is left out of package_versions
UpdFetchNone ==
    /\ upd_pc = "fetch"
    /\ upd_idx <= Len(current_packages)
    /\ lookups' = Append(lookups, "none")
    /\ upd_idx' = upd_idx + 1
    /\ UNCHANGED <<upd_pc, pubspec, pubspec0, current_packages, package_versions,
                   writes>>
    /\ UNCHANGED notUpd

\* getNewVersion lines 10-14: requests.get raises or the page has no title;
\* nothing catches it and the script ends
UpdFetchRaises ==
    /\ upd_pc = "fetch"
    /\ upd_idx <= Len(current_packages)
    /\ lookups' = Append(lookups, "raised")
    /\ upd_pc' = "crashed"
    /\ UNCHANGED <<pubspec, pubspec0, current_packages, upd_idx, package_versions,
                   writes>>
    /\ UNCHANGED notUpd

\* lines 63-65, update_pubspec_file lines 34-46: the file is rewritten
UpdWrite ==
    /\ upd_pc = "fetch"
    /\ upd_idx > Len(current_packages)
    /\ pubspec' = update_content(pubspec, package_versions)
    /\ writes' = writes + 1
    /\ upd_pc' = "done"
    /\ UNCHANGED <<pubspec0, current_packages, upd_idx, package_versions, lookups>>
    /\ UNCHANGED notUpd

-----------------------------------------------------------------------------
(* code-workspace/copy_files.py                                            *)
(*                                                                         *)
(* The source tree is a chain of folders: the root, a folder "d" in it, a  *)
(* folder "d" in that one, down to src_depth; every folder may hold one    *)
(* file "f".  A path is the sequence of its names, relative to the root it *)
(* belongs to (<<>> is the root itself).  copy_files_recursive is a        *)
(* recursive function; cp_stack holds its active calls, innermost last.    *)

\* DATE_CUTOFF = datetime(2026, 1, 1), as a number of days
DATE_CUTOFF == 20260101

\* a file that is not there
NoFile == [exists |-> FALSE, readable |-> FALSE, mtime |-> DATE_CUTOFF]

\* the files a folder may hold: modified before, at or after the cutoff, or
\* with a modification time that os.path.getmtime cannot read
SourceFiles ==
    {NoFile}
    \cup [exists : {TRUE}, readable : {TRUE},
          mtime : {DATE_CUTOFF - 1, DATE_CUTOFF, DATE_CUTOFF + 1}]
    \cup {[exists |-> TRUE, readable |-> FALSE, mtime |-> DATE_CUTOFF + 1]}

\* the folder at the given depth of the source tree
DirPath(k) == [i \in 1..k |-> "d"]

\* source / item.name
Join(path, name) == Append(path, name)

IsPrefix(p, q) == Len(p) <= Len(q) /\ SubSeq(q, 1, Len(p)) = p

\* the folder and every folder above it (mkdir(parents=True))
Parents(p) == { SubSeq(p, 1, k) : k \in 0..Len(p) }

\* the file "f" of the source folder
src_file(folder) ==
    IF Len(folder) <= src_depth /\ folder = DirPath(Len(folder))
    THEN src_files[Len(folder)] ELSE NoFile

\* the names source.iterdir() yields
iterdir(folder) ==
    (IF src_file(folder).exists THEN {"f"} ELSE {})
    \cup (IF Len(folder) < src_depth THEN {"d"} ELSE {})

\* a variant that also takes the files modified at the cutoff
should_copy_file_from_cutoff(st) == st.readable /\ st.mtime >= DATE_CUTOFF

\* should_copy_file, lines 56-73
should_copy_file(st) == st.readable /\ st.mtime > DATE_CUTOFF

\* not any(dest_item.iterdir())
dest_empty(folder) ==
    \A p \in dst_dirs \cup dst_files : ~(IsPrefix(folder, p) /\ p # folder)

\* a call copy_files_recursive(source, destination) that has not started
NewCall(source, destination) ==
    [source |-> source, destination |-> destination, started |-> FALSE,
     todo |-> {}, files_copied |-> 0, files_skipped |-> 0, errors |-> 0]

\* the innermost call
Top == cp_stack[Len(cp_stack)]

\* the stack with the innermost call replaced
WithTop(call) == [cp_stack EXCEPT ![Len(cp_stack)] = call]

\* lines 119-122: the stack after the innermost call returned its counts
Returned ==
    LET caller == cp_stack[Len(cp_stack) - 1] IN
    [SubSeq(cp_stack, 1, Len(cp_stack) - 1) EXCEPT ![Len(cp_stack) - 1] =
        [caller EXCEPT !.files_copied = caller.files_copied + Top.files_copied,
                       !.files_skipped = caller.files_skipped + Top.files_skipped,
                       !.errors = caller.errors + Top.errors]]

CpInit ==
    /\ cp_pc = "main"
    /\ src_depth \in -1..MaxTreeDepth
    /\ src_files \in [0..MaxTreeDepth -> SourceFiles]
    /\ \A k \in 0..MaxTreeDepth : k > src_depth => src_files[k] = NoFile
    /\ src_denied \in -1..src_depth
    /\ dst_dirs \in {{}, {<<>>}}
    /\ dst_dirs0 = dst_dirs
    /\ dst_files = {}
    /\ cp_stack = <<>>
    /\ cp_copied = {}
    /\ cp_failed = {}
    /\ cp_exit = -1

CpIdle ==
    /\ cp_pc = "idle"
    /\ src_depth = -1
    /\ src_files = [k \in 0..MaxTreeDepth |-> NoFile]
    /\ src_denied = -1
    /\ dst_dirs = {}
    /\ dst_dirs0 = {}
    /\ dst_files = {}
    /\ cp_stack = <<>>
    /\ cp_copied = {}
    /\ cp_failed = {}
    /\ cp_exit = -1

\* main, lines 159-178: the source is validated and the copy is started
CpMain ==
    /\ cp_pc = "main"
    /\ IF src_depth < 0
       THEN /\ cp_exit' = 1
            /\ cp_pc' = "done"
            /\ UNCHANGED cp_stack
       ELSE /\ cp_stack' = << NewCall(<<>>, <<>>) >>
            /\ cp_pc' = "copy"
            /\ UNCHANGED cp_exit
    /\ UNCHANGED <<src_depth, src_files, src_denied, dst_dirs, dst_dirs0, dst_files,
                   cp_copied, cp_failed>>
    /\ UNCHANGED notCp

\* lines 90-95: the destination folder is made, the source folder is listed;
\* a folder that may not be listed raises PermissionError (lines 139-141)
CpEnter ==
    /\ cp_pc = "copy"
    /\ ~Top.started
    /\ dst_dirs' = dst_dirs \cup Parents(Top.destination)
    /\ IF Len(Top.source) = src_denied
       THEN /\ cp_stack' = WithTop([Top EXCEPT !.started = TRUE, !.errors = 1])
            /\ cp_failed' = cp_failed \cup {Top.source}
       ELSE /\ cp_stack' = WithTop([Top EXCEPT !.started = TRUE,
                                               !.todo = iterdir(Top.source)])
            /\ UNCHANGED cp_failed
    /\ UNCHANGED <<cp_pc, src_depth, src_files, src_denied, dst_dirs0, dst_files,
                   cp_copied, cp_exit>>
    /\ UNCHANGED notCp

\* lines 92, 142-144: destination.mkdir raises
CpMkdirFails ==
    /\ cp_pc = "copy"
    /\ ~Top.started
    /\ Top.destination \notin dst_dirs
    /\ cp_stack' = WithTop([Top EXCEPT !.started = TRUE, !.errors = 1])
    /\ cp_failed' = cp_failed \cup {Top.source}
    /\ UNCHANGED <<cp_pc, src_depth, src_files, src_denied, dst_dirs, dst_dirs0,
                   dst_files, cp_copied, cp_exit>>
    /\ UNCHANGED notCp

\* lines 100-115, 135-137: the file of the folder is copied, skipped, or
\* (line 113 raising for a modification time that cannot be read) an error
CpFile ==
    /\ cp_pc = "copy"
    /\ Top.started
    /\ "f" \in Top.todo
    /\ LET source_item == Join(Top.source, "f")
           dest_item == Join(Top.destination, "f")
           st == src_file(Top.source)
           rest == [Top EXCEPT !.todo = Top.todo \ {"f"}]
       IN IF should_copy_file(st)
          THEN /\ dst_files' = dst_files \cup {dest_item}
               /\ cp_copied' = cp_copied \cup {[src |-> source_item, dst |-> dest_item]}
               /\ cp_stack' = WithTop([rest EXCEPT !.files_copied = rest.files_copied + 1])
               /\ UNCHANGED cp_failed
          ELSE IF st.readable
          THEN /\ cp_stack' = WithTop([rest EXCEPT !.files_skipped = rest.files_skipped + 1])
               /\ UNCHANGED <<dst_files, cp_copied, cp_failed>>
          ELSE /\ cp_stack' = WithTop([rest EXCEPT !.errors = rest.errors + 1])
               /\ cp_failed' = cp_failed \cup {source_item}
               /\ UNCHANGED <<dst_files, cp_copied>>
    /\ UNCHANGED <<cp_pc, src_depth, src_files, src_denied, dst_dirs, dst_dirs0, cp_exit>>
    /\ UNCHANGED notCp

\* lines 105, 109-111: shutil.copy2 raises
CpCopyFails ==
    /\ cp_pc = "copy"
    /\ Top.started
    /\ "f" \in Top.todo
    /\ should_copy_file(src_file(Top.source))
    /\ cp_stack' = WithTop([Top EXCEPT !.todo = Top.todo \ {"f"},
                                       !.errors = Top.errors + 1])
    /\ cp_failed' = cp_failed \cup {Join(Top.source, "f")}
    /\ UNCHANGED <<cp_pc, src_depth, src_files, src_denied, dst_dirs, dst_dirs0,
                   dst_files, cp_copied, cp_exit>>
    /\ UNCHANGED notCp

\* lines 117-119: the function calls itself for the sub-folder
CpDir ==
    /\ cp_pc = "copy"
    /\ Top.started
    /\ "d" \in Top.todo
    /\ cp_stack' = Append(WithTop([Top EXCEPT !.todo = Top.todo \ {"d"}]),
                          NewCall(Join(Top.source, "d"), Join(Top.destination, "d")))
    /\ UNCHANGED <<cp_pc, src_depth, src_files, src_denied, dst_dirs, dst_dirs0,
                   dst_files, cp_copied, cp_failed, cp_exit>>
    /\ UNCHANGED notCp

\* lines 119-130, 146: the inner call returns, the caller adds the counts and
\* removes the destination folder if it is empty
CpReturn ==
    /\ cp_pc = "copy"
    /\ Len(cp_stack) >= 2
    /\ Top.started
    /\ Top.todo = {}
    /\ cp_stack' = Returned
    /\ dst_dirs' = IF Top.destination \in dst_dirs /\ dest_empty(Top.destination)
                   THEN dst_dirs \ {Top.destination}
                   ELSE dst_dirs
    /\ UNCHANGED <<cp_pc, src_depth, src_files, src_denied, dst_dirs0, dst_files,
                   cp_copied, cp_failed, cp_exit>>
    /\ UNCHANGED notCp

\* lines 129, 131-133: rmdir raises; this is logged and the folder stays
CpRmdirFails ==
    /\ cp_pc = "copy"
    /\ Len(cp_stack) >= 2
    /\ Top.started
    /\ Top.todo = {}
    /\ Top.destination \in dst_dirs
    /\ dest_empty(Top.destination)
    /\ cp_stack' = Returned
    /\ UNCHANGED <<cp_pc, src_depth, src_files, src_denied, dst_dirs, dst_dirs0,
                   dst_files, cp_copied, cp_failed, cp_exit>>
    /\ UNCHANGED notCp

\* lines 146, 178-195: the outermost call returns, main returns 0 if there
\* was no error and 1 otherwise
CpFinish ==
    /\ cp_pc = "copy"
    /\ Len(cp_stack) = 1
    /\ Top.started
    /\ Top.todo = {}
    /\ cp_exit' = IF Top.errors = 0 THEN 0 ELSE 1
    /\ cp_pc' = "done"
    /\ UNCHANGED <<src_depth, src_files, src_denied, dst_dirs, dst_dirs0, dst_files,
                   cp_stack, cp_copied, cp_failed>>
    /\ UNCHANGED notCp

-----------------------------------------------------------------------------
(* code-workspace/update_job_numbers.py                                    *)
(*                                                                         *)
(* The table "2026" is a function from record IDs to records; the model    *)
(* keeps the records at and next to the two ends of the ID range.  job_tx  *)
(* is the table as the open connection sees it, job_db what is committed.  *)

\* ID_START = 1611
ID_START == 1611

\* ID_END = 1810
ID_END == 1810

\* JOB_NUMBER_PREFIX = "W6-0"
JOB_NUMBER_PREFIX == <<"W", "6", "-", "0">>

\* str() of one decimal digit
DigitChar(d) ==
    CASE d = 0 -> "0" [] d = 1 -> "1" [] d = 2 -> "2" [] d = 3 -> "3"
      [] d = 4 -> "4" [] d = 5 -> "5" [] d = 6 -> "6" [] d = 7 -> "7"
      [] d = 8 -> "8" [] OTHER -> "9"

\* str(n) for n >= 0
RECURSIVE Decimal(_)
Decimal(n) ==
    IF n < 10 THEN <<DigitChar(n)>>
    ELSE Append(Decimal(n \div 10), DigitChar(n % 10))

\* zeros in front, up to the width
RECURSIVE ZeroPad(_, _)
ZeroPad(s, width) == IF Len(s) >= width THEN s ELSE ZeroPad(<<"0">> \o s, width)

\* f"{n:03d}"
Format03d(n) ==
    IF n < 0 THEN <<"-">> \o ZeroPad(Decimal(0 - n), 2) ELSE ZeroPad(Decimal(n), 3)

\* a generate_job_number that counts from 0
generate_job_number_from_zero(record_id) ==
    JOB_NUMBER_PREFIX \o Format03d(record_id - ID_START)

\* generate_job_number, lines 76-92
generate_job_number(record_id) ==
    JOB_NUMBER_PREFIX \o Format03d(record_id - ID_START + 1)

\* the record IDs the table of the model may hold
JobIds == {ID_START - 1, ID_START, ID_START + 1, ID_END, ID_END + 1}

\* what a record holds before the run
OldJobNumber == <<"A", "6">>

NoRecord == [present |-> FALSE, Job_Number |-> <<>>, Enabled |-> FALSE]

JobRecord == [present |-> TRUE, Job_Number |-> OldJobNumber, Enabled |-> TRUE]

\* the tables of the model
JobTables == [JobIds -> {NoRecord, JobRecord}]

\* SELECT COUNT(*) ... WHERE [ID] >= ? AND [ID] <= ?, lines 113-115
record_count(table) ==
    Cardinality({ id \in JobIds : table[id].present /\ id >= ID_START /\ id <= ID_END })

\* what the user may type at the prompt
JobReplies ==
    { <<>>, S_y, <<"Y">>, <<" ", "Y", "E", "S", " ">>, <<"n", "o">>, <<"y", "e">> }

\* a prompt that only 'n' and 'no' decline
job_confirmed_unless_no(raw) == Lower(Strip(raw)) \notin { <<"n">>, <<"n", "o">> }

\* lines 142-144: input(...).strip().lower() in ['yes', 'y']
job_confirmed(raw) == Lower(Strip(raw)) \in {S_yes, S_y}

\* UPDATE ... SET [Job_Number] = ? WHERE [ID] = ?, lines 162-163
execute_update(table, new_job_number, record_id) ==
    [id \in JobIds |->
        IF id = record_id /\ table[id].present
        THEN [table[id] EXCEPT !.Job_Number = new_job_number]
        ELSE table[id]]

\* cursor.rowcount after the UPDATE
rowcount(table, record_id) ==
    IF record_id \in JobIds /\ table[record_id].present THEN 1 ELSE 0

JobInit ==
    /\ job_pc = "start"
    /\ job_db \in JobTables
    /\ job_db0 = job_db
    /\ job_tx = job_db
    /\ job_reply = NoReply
    /\ job_record_id = ID_START
    /\ job_updated_count = 0
    /\ job_error_count = 0
    /\ job_executed = 0
    /\ job_committed = FALSE
    /\ gen_pc = "idle"
    /\ gen_ids = <<ID_START, ID_START>>
    /\ gen_numbers = << <<>>, <<>> >>

JobIdle ==
    /\ job_pc = "idle"
    /\ job_db = [id \in JobIds |-> NoRecord]
    /\ job_db0 = job_db
    /\ job_tx = job_db
    /\ job_reply = NoReply
    /\ job_record_id = ID_START
    /\ job_updated_count = 0
    /\ job_error_count = 0
    /\ job_executed = 0
    /\ job_committed = FALSE
    /\ gen_pc = "idle"
    /\ gen_ids = <<ID_START, ID_START>>
    /\ gen_numbers = << <<>>, <<>> >>

\* generate_job_number is applied to two IDs of the range
GenInit ==
    /\ job_pc = "idle"
    /\ job_db = [id \in JobIds |-> NoRecord]
    /\ job_db0 = job_db
    /\ job_tx = job_db
    /\ job_reply = NoReply
    /\ job_record_id = ID_START
    /\ job_updated_count = 0
    /\ job_error_count = 0
    /\ job_executed = 0
    /\ job_committed = FALSE
    /\ gen_pc = "call"
    /\ gen_ids \in (ID_START..ID_END) \X (ID_START..ID_END)
    /\ gen_numbers = << <<>>, <<>> >>

jobRun == <<job_pc, job_db, job_db0, job_tx, job_reply, job_record_id,
            job_updated_count, job_error_count, job_executed, job_committed>>

\* lines 134, 159: new_job_number = generate_job_number(record_id)
GenCall ==
    /\ gen_pc = "call"
    /\ gen_numbers' = << generate_job_number(gen_ids[1]),
                         generate_job_number(gen_ids[2]) >>
    /\ gen_pc' = "done"
    /\ UNCHANGED <<gen_ids, jobRun>>
    /\ UNCHANGED notJob

\* lines 105-123: connect and count the records of the range; none ends the run
JobCount ==
    /\ job_pc = "start"
    /\ job_pc' = IF record_count(job_tx) = 0 THEN "done" ELSE "confirm"
    /\ UNCHANGED <<job_db, job_db0, job_tx, job_reply, job_record_id,
                   job_updated_count, job_error_count, job_executed, job_committed>>
    /\ UNCHANGED <<gen_pc, gen_ids, gen_numbers>>
    /\ UNCHANGED notJob

\* lines 108-115, 195-210: the connection or the count query raises
JobConnectFails ==
    /\ job_pc = "start"
    /\ job_pc' = "raised"
    /\ UNCHANGED <<job_db, job_db0, job_tx, job_reply, job_record_id,
                   job_updated_count, job_error_count, job_executed, job_committed>>
    /\ UNCHANGED <<gen_pc, gen_ids, gen_numbers>>
    /\ UNCHANGED notJob

\* lines 125-148: the preview is shown and the user is asked; any answer but
\* yes or y ends the run
JobConfirm ==
    /\ job_pc = "confirm"
    /\ \E raw \in JobReplies :
         /\ job_reply' = raw
         /\ job_pc' = IF job_confirmed(raw) THEN "update" ELSE "done"
    /\ UNCHANGED <<job_db, job_db0, job_tx, job_record_id, job_updated_count,
                   job_error_count, job_executed, job_committed>>
    /\ UNCHANGED <<gen_pc, gen_ids, gen_numbers>>
    /\ UNCHANGED notJob

\* lines 158-171: the UPDATE for one ID of the range
JobUpdate ==
    /\ job_pc = "update"
    /\ job_record_id <= ID_END
    /\ job_tx' = execute_update(job_tx, generate_job_number(job_record_id),
                                job_record_id)
    /\ job_executed' = job_executed + 1
    /\ job_updated_count' = job_updated_count + rowcount(job_tx, job_record_id)
    /\ job_record_id' = job_record_id + 1
    /\ UNCHANGED <<job_pc, job_db, job_db0, job_reply, job_error_count, job_committed>>
    /\ UNCHANGED <<gen_pc, gen_ids, gen_numbers>>
    /\ UNCHANGED notJob

\* lines 173-175: the UPDATE raises; the error is counted and the loop goes on
JobUpdateRaises ==
    /\ job_pc = "update"
    /\ job_record_id <= ID_END
    /\ job_error_count < MaxJobErrors
    /\ job_error_count' = job_error_count + 1
    /\ job_record_id' = job_record_id + 1
    /\ UNCHANGED <<job_pc, job_db, job_db0, job_tx, job_reply, job_updated_count,
                   job_executed, job_committed>>
    /\ UNCHANGED <<gen_pc, gen_ids, gen_numbers>>
    /\ UNCHANGED notJob

\* lines 177-193: conn.commit()
JobCommit ==
    /\ job_pc = "update"
    /\ job_record_id > ID_END
    /\ job_db' = job_tx
    /\ job_committed' = TRUE
    /\ job_pc' = "done"
    /\ UNCHANGED <<job_db0, job_tx, job_reply, job_record_id, job_updated_count,
                   job_error_count, job_executed>>
    /\ UNCHANGED <<gen_pc, gen_ids, gen_numbers>>
    /\ UNCHANGED notJob

\* lines 178, 195-210: conn.commit() raises; nothing is committed
JobCommitFails ==
    /\ job_pc = "update"
    /\ job_record_id > ID_END
    /\ job_pc' = "raised"
    /\ UNCHANGED <<job_db, job_db0, job_tx, job_reply, job_record_id,
                   job_updated_count, job_error_count, job_executed, job_committed>>
    /\ UNCHANGED <<gen_pc, gen_ids, gen_numbers>>
    /\ UNCHANGED notJob

-----------------------------------------------------------------------------
(* code-workspace/deep_search_chat.py                                      *)
(*                                                                         *)
(* A key of ItemTable is a sequence of characters.  A value is kept as     *)
(* what the search looks at: the length of value_str, the chat indicators  *)
(* its lower-cased text contains and whether json.loads accepts it.        *)

\* the terms of line 83
KeyTerms ==
    { <<"c", "h", "a", "t">>,
      <<"m", "e", "s", "s", "a", "g", "e">>,
      <<"c", "o", "n", "v", "e", "r", "s", "a", "t", "i", "o", "n">>,
      <<"s", "e", "s", "s", "i", "o", "n">> }

\* term in text
Contains(term, text) ==
    \E k \in 0..(Len(text) - Len(term)) : SubSeq(text, k + 1, k + Len(term)) = term

\* line 83: any(term in key_str.lower() for term in [...])
key_suggests_chat(key_str) == \E term \in KeyTerms : Contains(term, Lower(key_str))

\* the keys of the model
ItemKeys ==
    { <<"a", "i", "c", "h", "a", "t">>,
      <<"S", "e", "s", "s", "i", "o", "n">>,
      <<"u", "i">> }

\* the chat indicators (lines 54-58) a value of the model may contain
IndicatorSets == { {}, {"chat"}, {"message", "user"} }

\* the empty value
EmptyValue == [len |-> 0, indicators |-> {}, json |-> FALSE]

\* the values of the model: lengths at and next to the thresholds 50 and 200
ItemValues ==
    {EmptyValue}
    \cup [len : {50, 51, 201}, indicators : IndicatorSets, json : BOOLEAN]

\* the tables of at most MaxItems items
ItemTables ==
    UNION { [1..n -> [key : ItemKeys, value : ItemValues]] : n \in 0..MaxItems }

\* 'indicators': 'key_match', kept as a number
KEY_MATCH == 0 - 1

\* line 60: sum(1 for indicator in chat_indicators if indicator in value_lower)
indicator_count(value) == Cardinality(value.indicators)

Min2(a, b) == IF a <= b THEN a ELSE b

\* lines 66-72, 76-82, 87-93, 95-101: the entry appended for an item
chat_item(item, type, indicators, data_len) ==
    [key |-> item.key, type |-> type, indicators |-> indicators,
     data |-> item.value, data_len |-> data_len]

\* lines 49-101: what one item appends to potential_chat_items
item_selection(item) ==
    LET value == item.value IN
    IF value.len > 0 /\ value.len > 50
    THEN IF indicator_count(value) >= 2
         THEN IF value.json
              THEN << chat_item(item, "json", indicator_count(value), value.len) >>
              ELSE IF value.len > 200
                   THEN << chat_item(item, "string", indicator_count(value),
                                     Min2(value.len, 2000)) >>
                   ELSE <<>>
         ELSE <<>>
    ELSE IF value.len > 0 /\ key_suggests_chat(item.key)
         THEN IF value.json
              THEN << chat_item(item, "json", KEY_MATCH, value.len) >>
              ELSE << chat_item(item, "string", KEY_MATCH, value.len) >>
         ELSE <<>>

\* line 107: the sort key
sort_key(x) == IF x.indicators # KEY_MATCH THEN x.indicators ELSE 0

\* one entry put into a list sorted by falling key, behind its equals
RECURSIVE insert_sorted(_, _)
insert_sorted(sorted, x) ==
    IF sorted = <<>> THEN <<x>>
    ELSE IF sort_key(Head(sorted)) >= sort_key(x)
         THEN <<Head(sorted)>> \o insert_sorted(Tail(sorted), x)
         ELSE <<x>> \o sorted

\* line 107: list.sort(key=..., reverse=True), which keeps equals in order
RECURSIVE sort_items(_)
sort_items(list) ==
    IF list = <<>> THEN <<>>
    ELSE insert_sorted(sort_items(SubSeq(list, 1, Len(list) - 1)), list[Len(list)])

\* deep_search_results.json has not been written
NoOutput == [written |-> FALSE, potential_chat_items |-> <<>>]

DsInit ==
    /\ ds_pc = "start"
    /\ db_exists \in BOOLEAN
    /\ all_items \in ItemTables
    /\ ds_idx = 1
    /\ potential_chat_items = <<>>
    /\ output_file = NoOutput

DsIdle ==
    /\ ds_pc = "idle"
    /\ db_exists = FALSE
    /\ all_items = <<>>
    /\ ds_idx = 1
    /\ potential_chat_items = <<>>
    /\ output_file = NoOutput

\* lines 16-18: the database file is not there
DsNotFound ==
    /\ ds_pc = "start"
    /\ ~db_exists
    /\ ds_pc' = "done"
    /\ UNCHANGED <<db_exists, all_items, ds_idx, potential_chat_items, output_file>>
    /\ UNCHANGED notDs

\* lines 23-35: connect and fetch all items
DsFetchAll ==
    /\ ds_pc = "start"
    /\ db_exists
    /\ ds_pc' = "scan"
    /\ UNCHANGED <<db_exists, all_items, ds_idx, potential_chat_items, output_file>>
    /\ UNCHANGED notDs

\* lines 24-29, 132-135: connect or the query raises; the error is printed
DsFetchFails ==
    /\ ds_pc = "start"
    /\ db_exists
    /\ ds_pc' = "done"
    /\ UNCHANGED <<db_exists, all_items, ds_idx, potential_chat_items, output_file>>
    /\ UNCHANGED notDs

\* lines 37-101: one turn of the loop over all_items
DsScanItem ==
    /\ ds_pc = "scan"
    /\ ds_idx <= Len(all_items)
    /\ potential_chat_items' =
          potential_chat_items \o item_selection(all_items[ds_idx])
    /\ ds_idx' = ds_idx + 1
    /\ UNCHANGED <<ds_pc, db_exists, all_items, output_file>>
    /\ UNCHANGED notDs

\* lines 103-130: the candidates are sorted, shown and saved
DsSave ==
    /\ ds_pc = "scan"
    /\ ds_idx > Len(all_items)
    /\ potential_chat_items' = sort_items(potential_chat_items)
    /\ output_file' = [written |-> TRUE,
                       potential_chat_items |-> sort_items(potential_chat_items)]
    /\ ds_pc' = "done"
    /\ UNCHANGED <<db_exists, all_items, ds_idx>>
    /\ UNCHANGED notDs

\* lines 119-126, 132-135: writing the results raises; the error is printed
DsSaveFails ==
    /\ ds_pc = "scan"
    /\ ds_idx > Len(all_items)
    /\ potential_chat_items' = sort_items(potential_chat_items)
    /\ ds_pc' = "done"
    /\ UNCHANGED <<db_exists, all_items, ds_idx, output_file>>
    /\ UNCHANGED notDs

-----------------------------------------------------------------------------
(* Specifications                                                          *)

NextDel ==
    \/ DelOpen
    \/ DelReadRow
    \/ DelEndOfFile
    \/ DelConfirm
    \/ DelUnlink
    \/ DelFinish

InitDelSpec == DelInit /\ FdIdle /\ ImpIdle /\ SyncIdle /\ UpdIdle /\ CpIdle /\ JobIdle /\ DsIdle

SpecDel == InitDelSpec /\ [][NextDel]_vars

NextFind ==
    \/ FdNextRoot
    \/ FdScanFile
    \/ FdEndWalk
    \/ FdReturn

InitFindSpec == FdInit /\ DelIdle /\ ImpIdle /\ SyncIdle /\ UpdIdle /\ CpIdle /\ JobIdle /\ DsIdle

SpecFind == InitFindSpec /\ [][NextFind]_vars

NextImport ==
    \/ ImpStart
    \/ ImpFixImported
    \/ ImpPrefetch
    \/ ImpPrefetchFails
    \/ ImpSkipRow
    \/ ImpDiagnoseRow
    \/ ImpInsertRow
    \/ ImpInsertRaises
    \/ ImpInsertNoData
    \/ ImpChildRaises
    \/ ImpFinish
    \/ ImpRerun

InitImportSpec == ImpInit /\ DelIdle /\ FdIdle /\ SyncIdle /\ UpdIdle /\ CpIdle /\ JobIdle /\ DsIdle

\* the import with every failure of an API call the code provides for
SpecImport == InitImportSpec /\ [][NextImport]_vars

\* the runs in which no API call fails
NextImportOk ==
    \/ ImpStart
    \/ ImpFixImported
    \/ ImpPrefetch
    \/ ImpSkipRow
    \/ ImpDiagnoseRow
    \/ ImpInsertRow
    \/ ImpFinish
    \/ ImpRerun

SpecImportOk == InitImportSpec /\ [][NextImportOk]_vars

NextSyncSched ==
    \/ SsRead
    \/ SsReadFails
    \/ SsMap
    \/ SsSyncRaises
    \/ SsUpsert
    \/ SsUpsertRaises
    \/ SsFinish
    \/ SyncEditAccess
    \/ SyncRerun

InitSyncSpec == SyncInit /\ DelIdle /\ FdIdle /\ ImpIdle /\ UpdIdle /\ CpIdle /\ JobIdle /\ DsIdle

SpecSyncSched == InitSyncSpec /\ [][NextSyncSched]_vars

NextSyncWs ==
    \/ WsRead
    \/ WsReadFails
    \/ WsMap
    \/ WsSyncRaises
    \/ WsUpsert
    \/ WsUpsertRaises
    \/ WsFinish
    \/ SyncEditAccess
    \/ SyncRerun

SpecSyncWs == InitSyncSpec /\ [][NextSyncWs]_vars

NextUpdate ==
    \/ UpdRead
    \/ UpdFetchVersion
    \/ UpdFetchNone
    \/ UpdFetchRaises
    \/ UpdWrite

InitUpdateSpec == UpdInit /\ DelIdle /\ FdIdle /\ ImpIdle /\ SyncIdle /\ CpIdle /\ JobIdle /\ DsIdle

SpecUpdate == InitUpdateSpec /\ [][NextUpdate]_vars

NextCopy ==
    \/ CpMain
    \/ CpEnter
    \/ CpMkdirFails
    \/ CpFile
    \/ CpCopyFails
    \/ CpDir
    \/ CpReturn
    \/ CpRmdirFails
    \/ CpFinish

InitCopySpec == CpInit /\ DelIdle /\ FdIdle /\ ImpIdle /\ SyncIdle /\ UpdIdle /\ JobIdle /\ DsIdle

SpecCopy == InitCopySpec /\ [][NextCopy]_vars

IdleButJob == DelIdle /\ FdIdle /\ ImpIdle /\ SyncIdle /\ UpdIdle /\ CpIdle /\ DsIdle

NextJobUpdate ==
    \/ JobCount
    \/ JobConnectFails
    \/ JobConfirm
    \/ JobUpdate
    \/ JobUpdateRaises
    \/ JobCommit
    \/ JobCommitFails

InitJobUpdateSpec == JobInit /\ IdleButJob

SpecJobUpdate == InitJobUpdateSpec /\ [][NextJobUpdate]_vars

NextJobNumber == GenCall

InitJobNumberSpec == GenInit /\ IdleButJob

SpecJobNumber == InitJobNumberSpec /\ [][NextJobNumber]_vars

NextDeepSearch ==
    \/ DsNotFound
    \/ DsFetchAll
    \/ DsFetchFails
    \/ DsScanItem
    \/ DsSave
    \/ DsSaveFails

InitDeepSearchSpec ==
    DsInit /\ DelIdle /\ FdIdle /\ ImpIdle /\ SyncIdle /\ UpdIdle /\ CpIdle /\ JobIdle

SpecDeepSearch == InitDeepSearchSpec /\ [][NextDeepSearch]_vars

-----------------------------------------------------------------------------
(* Claims about scripts/delete_marked_duplicates.py                        *)

\* the replies the prompt documents as consent: 'y' or 'yes' once trimmed
\* and lower-cased
SaidYes(raw) == raw # NoReply /\ Lower(Strip(raw)) \in { <<"y">>, <<"y", "e", "s">> }

\* C1: unless --no-confirm is given, no file is unlinked before the prompt has
\* been answered, a file is unlinked only if the trimmed, lower-cased reply is
\* 'y' or 'yes', and after any other reply (an empty one too) the run ends
\* with every file still present.
Thm_C1 ==
    /\ [][ (~no_confirm /\ disk' # disk) => SaidYes(reply) ]_vars
    /\ [](  (~no_confirm /\ reply # NoReply /\ ~SaidYes(reply))
            => (del_pc = "done" /\ disk = disk0) )

\* C1 witness: a run without --no-confirm that asked, got ' YES ' and deleted
Wit_C1 ==
    /\ ~no_confirm
    /\ reply = <<" ", "Y", "E", "S", " ">>
    /\ del_pc = "done"
    /\ deleted > 0
    /\ disk # disk0

\* C2: with --dry-run no file is deleted, whatever the CSV holds and whatever
\* the other flags are: the files on disk stay the files that were there.
Thm_C2 == dry_run => (disk = disk0 /\ deleted = 0 /\ del_pc # "delete")

\* C2 witness: a dry run with --no-confirm whose CSV marks a file that exists
Wit_C2 ==
    /\ dry_run
    /\ no_confirm
    /\ del_pc = "done"
    /\ to_delete # <<>>
    /\ to_delete[1] \in disk

\* the mark values the module docstring lists: Y, y, 1, yes, true
DocMarked(cell) ==
    Lower(Strip(cell)) \in { <<"y">>, <<"1">>, <<"y", "e", "s">>, <<"t", "r", "u", "e">> }

\* what a row adds to to_delete if marks are read as the docstring says
DocSelection(r) ==
    IF row_too_short(r) \/ Strip(r[path_idx]) = <<>> THEN <<>>
    ELSE IF DocMarked(r[mark_idx]) THEN << Strip(r[path_idx]) >>
    ELSE <<>>

\* C3: a row's file is selected for deletion if and only if its
\* mark_for_deletion cell, trimmed and lower-cased, is one of y, 1, yes, true;
\* a row with an empty cell or any other value is never selected.
Cex_C3 == [][ nread' = nread + 1 => to_delete' = to_delete \o DocSelection(row') ]_vars

-----------------------------------------------------------------------------
(* Claims about scripts/find_duplicate_files.py                            *)

\* the files below a root
Below(r) == { walk(resolve(r))[i] : i \in DOMAIN walk(resolve(r)) }

\* the files some root reaches, that pass the filters and can be read
ScannedReadable ==
    { slot \in Slots :
        /\ \E i \in DOMAIN roots :
              root_exists(resolve(roots[i])) /\ slot \in Below(roots[i])
        /\ scan_yields(slot)
        /\ fs[slot].readable }

\* the scanned, readable files whose content hash is h
WithHash(h) == { slot \in ScannedReadable : fs[slot].hash = h }

\* the paths a group lists
PathsOf(group) == { group[i].path : i \in DOMAIN group }

\* C4: the returned map has a key h if and only if more than one scanned file
\* has content hash h, and the entry for h lists exactly the scanned, readable
\* files with that hash: every group has at least two entries, all of hash h.
Cex_C4 ==
    fd_pc = "done" =>
        \A h \in Hashes :
            /\ h \in DOMAIN dupes <=> Cardinality(WithHash(h)) > 1
            /\ h \in DOMAIN dupes =>
                  /\ PathsOf(dupes[h]) = WithHash(h)
                  /\ Len(dupes[h]) >= 2
                  /\ \A i \in DOMAIN dupes[h] : fs[dupes[h][i].path].hash = h

\* C5: every reported group is a set of at least two distinct files: no path
\* occurs twice in a group, for any list of roots, repeated or nested.
Cex_C5 ==
    fd_pc = "done" =>
        \A h \in DOMAIN dupes :
            /\ Cardinality(PathsOf(dupes[h])) = Len(dupes[h])
            /\ Cardinality(PathsOf(dupes[h])) >= 2

-----------------------------------------------------------------------------
(* Claims about code-workspace/import_payroll_bland_david.py               *)

\* two time_periods records with the same user_id, work_date and start_time
SameKey(x, y) ==
    /\ x.user_id = y.user_id
    /\ x.work_date = y.work_date
    /\ x.start_time = y.start_time

\* C6: the importer never inserts a time_periods record whose (user_id,
\* work_date, start_time) equals that of a record already in time_periods
\* within the sheet's date range or inserted earlier in the same run.
Cex_C6 ==
    [][ Len(time_periods') > Len(time_periods) =>
          \A i \in DOMAIN time_periods :
              ~SameKey(time_periods[i], time_periods'[Len(time_periods')]) ]_vars

\* C7: the import is idempotent: when the same sheet is imported a second
\* time, with no other change to the database and no error in the first run,
\* the second run inserts no time_periods record.
Cex_C7 == \A i \in DOMAIN time_periods : time_periods[i].run < 2

-----------------------------------------------------------------------------
(* Claims about the two project syncs                                      *)

\* at most one row of the table per project_number
UniqueProjectNumber(table) ==
    \A i, j \in DOMAIN table :
        i # j => table[i].project_number # table[j].project_number

\* the rows of the table with the given project_number
RowsWithNumber(table, pn) == {i \in DOMAIN table : table[i].project_number = pn}

\* C8: in scheduled_tasks/sync_projects.py every mapped project is matched on
\* project_number: if a remote row with that number exists, the step keeps the
\* number of rows, every row's id and project_number, and gives the matched
\* row the project's name; otherwise the step adds exactly one row, carrying
\* the project, or (the call having raised) adds none.  And from a table with
\* at most one row per project_number every sequence of runs keeps at most one
\* row per project_number.
Thm_C8 ==
    /\ [] UniqueProjectNumber(remote_projects)
    /\ [][ (sync_pc = "loop" /\ sync_idx' = sync_idx + 1) =>
             LET project == mapped_projects[sync_idx]
                 hits == RowsWithNumber(remote_projects, project.project_number)
             IN IF hits # {}
                THEN /\ Len(remote_projects') = Len(remote_projects)
                     /\ \A i \in DOMAIN remote_projects :
                          /\ remote_projects'[i].id = remote_projects[i].id
                          /\ remote_projects'[i].project_number
                               = remote_projects[i].project_number
                     /\ \/ remote_projects' = remote_projects
                        \/ \A i \in hits :
                             remote_projects'[i].project_name = project.project_name
                ELSE \/ remote_projects' = remote_projects
                     \/ /\ Len(remote_projects') = Len(remote_projects) + 1
                        /\ SubSeq(remote_projects', 1, Len(remote_projects))
                             = remote_projects
                        /\ remote_projects'[Len(remote_projects')].project_number
                             = project.project_number
                        /\ remote_projects'[Len(remote_projects')].project_name
                             = project.project_name ]_vars

\* a second run has updated the name of a row that the first run inserted,
\* and the table holds two rows or more
Wit_C8 ==
    /\ sync_run = 2
    /\ sync_pc = "done"
    /\ updated_count >= 1
    /\ inserted_count = 0
    /\ Len(remote_projects) >= 2
    /\ \E i \in DOMAIN remote_projects, k \in DOMAIN access :
         /\ remote_projects[i].access_id = access[k].ID
         /\ access[k].Folder_Description = T_G
         /\ remote_projects[i].project_name = T_G
         /\ remote_projects[i].project_number = T_A

\* C9: in code-workspace/sync_projects_access_to_supabase.py no two remote
\* rows were inserted for the same Access record, whatever was done to the
\* record's Folder_Description between the syncs.
Cex_C9 ==
    \A i, j \in DOMAIN remote_projects :
        (i # j /\ remote_projects[i].access_id # 0)
            => remote_projects[i].access_id # remote_projects[j].access_id

-----------------------------------------------------------------------------
(* Claims about update.py                                                  *)

\* C10: after the run every dependency line whose package is in
\* package_versions (its lookup returned a version) carries the version
\* fetched for that package, also when one name ends another.
Cex_C10 ==
    upd_pc = "done" =>
        \A i \in DOMAIN pubspec, k \in DOMAIN package_versions :
            package_versions[k].package = pubspec[i].name
                => pubspec[i].version = package_versions[k].version

-----------------------------------------------------------------------------
(* Claims about code-workspace/copy_files.py                               *)

\* the source path of the file at the given depth
FilePath(k) == Join(DirPath(k), "f")

\* the processing of the file, or of a folder above it, raised
ErrorOn(path) == \E q \in cp_failed : IsPrefix(q, path)

\* was the source file copied
Copied(path) == \E c \in cp_copied : c.src = path

\* C11: when the copy is over, a file of the source tree was copied if and
\* only if its modification time could be read, is strictly later than
\* DATE_CUTOFF, and nothing raised for it or for a folder above it; every copy
\* made went to the same relative path under the destination, where the file
\* now is; a file modified at the cutoff or before, or with a modification
\* time that cannot be read, was never copied.
Thm_C11 ==
    /\ \A c \in cp_copied :
         /\ c.dst = c.src
         /\ c.dst \in dst_files
         /\ \E k \in 0..MaxTreeDepth :
              /\ c.src = FilePath(k)
              /\ src_files[k].exists
              /\ src_files[k].readable
              /\ src_files[k].mtime > DATE_CUTOFF
    /\ cp_pc = "done" =>
         \A k \in 0..src_depth :
             src_files[k].exists =>
                 (Copied(FilePath(k)) <=>
                     /\ src_files[k].readable
                     /\ src_files[k].mtime > DATE_CUTOFF
                     /\ ~ErrorOn(FilePath(k)))

\* the copy is over; a file below the root was copied, a file modified
\* exactly at the cutoff was not, and neither was one whose time is unreadable
Wit_C11 ==
    /\ cp_pc = "done"
    /\ \E k \in 1..src_depth : Copied(FilePath(k))
    /\ \E k \in 0..src_depth :
         /\ src_files[k].exists /\ src_files[k].readable
         /\ src_files[k].mtime = DATE_CUTOFF
         /\ ~Copied(FilePath(k))
    /\ \E k \in 0..src_depth :
         /\ src_files[k].exists /\ ~src_files[k].readable
         /\ ~Copied(FilePath(k))

\* C12: when the copy is over on a destination that did not exist before,
\* every folder of the destination holds a copied file, directly or deeper:
\* no folder of the destination is empty.
Cex_C12 ==
    (cp_pc = "done" /\ dst_dirs0 = {}) =>
        \A d \in dst_dirs : \E f \in dst_files : IsPrefix(d, f)

-----------------------------------------------------------------------------
(* Claims about main() of scheduled_tasks/sync_projects.py                 *)

\* the run of the sync is over
SyncOver == sync_pc \in {"done", "edited"}

\* C13: when main() of scheduled_tasks/sync_projects.py has returned, the exit
\* code is 1 if the Access read raised, if a single project was asked for and
\* not found, if the Supabase sync raised or if the error count is above 0;
\* it is 0 in every other case, a full sync that reads no project included.
Thm_C13 ==
    SyncOver =>
        exit_code =
            IF \/ sync_failure = "read"
               \/ (sync_failure = "none" /\ projects = <<>>
                      /\ project_number_arg # None)
               \/ sync_failure = "sync"
               \/ error_count > 0
            THEN 1 ELSE 0

\* a run that inserted one project and failed on another has returned 1
Wit_C13 ==
    /\ SyncOver
    /\ exit_code = 1
    /\ sync_failure = "none"
    /\ error_count > 0
    /\ inserted_count > 0

-----------------------------------------------------------------------------
(* Claims about the breaks, --diagnose and the counting of the importer    *)

\* the multiple of 15 nearest to a number of minutes
NearestQuarter(m) ==
    CHOOSE q \in { 15 * k : k \in 0..8 } :
        \A k \in 0..8 : (IF m >= q THEN m - q ELSE q - m)
                           <= (IF m >= 15 * k THEN m - 15 * k ELSE 15 * k - m)

\* the records the step appends to time_period_breaks
NewBreaks ==
    SubSeq(time_period_breaks', Len(time_period_breaks) + 1, Len(time_period_breaks'))

\* minutes between the start and the finish of a break record
Duration(b) == b.break_finish - b.break_start

Cex_C15 == [][ diagnose => impTables' = impTables ]_vars

\* C19: every record of time_period_breaks finishes strictly later than it
\* starts and lasts a multiple of 15 minutes.
Cex_C19 ==
    \A i \in DOMAIN time_period_breaks :
        /\ time_period_breaks[i].break_finish > time_period_breaks[i].break_start
        /\ Duration(time_period_breaks[i]) % 15 = 0

\* C20: when the loop over the rows is over, every row has been counted
\* exactly once: the counts of inserted, skipped and failed rows add up to the
\* number of rows, whatever API errors there were.
Cex_C20 ==
    (imp_pc = "done" /\ row_idx > Len(rows)) =>
        inserted + skipped_site_placeholder + skipped_unknown_employee
          + skipped_not_selected + skipped_no_date + skipped_no_work
          + skipped_duplicate + Len(errors) = Len(rows)


\* the number a decimal digit character stands for (-1 = not a digit)
DigitValue(c) ==
    CASE c = "0" -> 0 [] c = "1" -> 1 [] c = "2" -> 2 [] c = "3" -> 3
      [] c = "4" -> 4 [] c = "5" -> 5 [] c = "6" -> 6 [] c = "7" -> 7
      [] c = "8" -> 8 [] c = "9" -> 9 [] OTHER -> 0 - 1

\* s reads W6-0ddd and ddd is the number n
IsJobNumberOf(s, n) ==
    /\ Len(s) = 7
    /\ SubSeq(s, 1, 4) = <<"W", "6", "-", "0">>
    /\ \A k \in 5..7 : DigitValue(s[k]) >= 0
    /\ 100 * DigitValue(s[5]) + 10 * DigitValue(s[6]) + DigitValue(s[7]) = n

\* C16: generate_job_number maps every ID of 1611..1810 to W6-0 followed by
\* ID - 1610 in three digits with leading zeros: 1611 gives W6-0001, 1810
\* gives W6-0200, every result reads W6-0ddd with ddd in 001..200, and two
\* different IDs of the range get different Job_Numbers.
Thm_C16 ==
    gen_pc = "done" =>
        /\ \A k \in 1..2 :
             /\ IsJobNumberOf(gen_numbers[k], gen_ids[k] - 1610)
             /\ gen_ids[k] - 1610 \in 1..200
             /\ gen_ids[k] = 1611 =>
                  gen_numbers[k] = <<"W", "6", "-", "0", "0", "0", "1">>
             /\ gen_ids[k] = 1810 =>
                  gen_numbers[k] = <<"W", "6", "-", "0", "2", "0", "0">>
        /\ gen_ids[1] # gen_ids[2] => gen_numbers[1] # gen_numbers[2]

\* the two ends of the range have been given their Job_Numbers
Wit_C16 ==
    /\ gen_pc = "done"
    /\ gen_ids = <<1611, 1810>>
    /\ gen_numbers[1] = <<"W", "6", "-", "0", "0", "0", "1">>
    /\ gen_numbers[2] = <<"W", "6", "-", "0", "2", "0", "0">>

\* the user's answer, trimmed and in lower case, is yes or y
AnsweredYes ==
    /\ job_reply # NoReply
    /\ Lower(Strip(job_reply)) \in { <<"y">>, <<"y", "e", "s">> }

\* the record with this ID differs from what it was before the run in
\* nothing but its Job_Number, and only if the ID lies in 1611..1810
OnlyJobNumberInRange(table, id) ==
    table[id] # job_db0[id] =>
        /\ id \in 1611..1810
        /\ [table[id] EXCEPT !.Job_Number = job_db0[id].Job_Number] = job_db0[id]

\* C17: update_job_numbers changes no record unless the user answers yes or
\* y (trimmed, in any case) and none when no record has an ID in 1611..1810;
\* in both cases the run ends with no UPDATE executed and nothing committed;
\* and when it updates, only the Job_Number of records with an ID in
\* 1611..1810 changes.
Thm_C17 ==
    /\ (job_tx # job_db0 \/ job_db # job_db0 \/ job_executed > 0 \/ job_committed) =>
          AnsweredYes /\ record_count(job_db0) > 0
    /\ (job_pc = "update") => AnsweredYes /\ record_count(job_db0) > 0
    /\ (job_reply # NoReply /\ ~AnsweredYes) =>
          job_pc = "done" /\ job_executed = 0 /\ ~job_committed
    /\ (job_pc \notin {"idle", "start"} /\ record_count(job_db0) = 0) =>
          job_pc \in {"done", "raised"} /\ job_reply = NoReply
             /\ job_executed = 0 /\ ~job_committed
    /\ \A id \in JobIds :
          OnlyJobNumberInRange(job_tx, id) /\ OnlyJobNumberInRange(job_db, id)

\* the user typed " YES ", the records at both ends of the range got their
\* Job_Numbers and the records next to the range are as they were
Wit_C17 ==
    /\ job_pc = "done"
    /\ job_committed
    /\ job_reply = <<" ", "Y", "E", "S", " ">>
    /\ job_db0[1610].present /\ job_db0[1811].present
    /\ job_db[1610] = job_db0[1610] /\ job_db[1811] = job_db0[1811]
    /\ job_db[1611].Job_Number = <<"W", "6", "-", "0", "0", "0", "1">>
    /\ job_db[1810].Job_Number = <<"W", "6", "-", "0", "2", "0", "0">>
    /\ job_db[1810].Enabled = job_db0[1810].Enabled

\* C18: after delete_marked_duplicates has run on a CSV of
\* find_duplicate_files, at least one file of every duplicate group is still
\* there, whatever rows were marked (FileA and FileB are one group).
Cex_C18 ==
    (del_pc = "done" /\ header = StdHeader /\ disk0 = Files) => disk # {}


-----------------------------------------------------------------------------
(* More claims about update.py                                             *)

\* the file is written at most once, after the last lookup, and not at all
\* when a lookup raised
WrittenOnceAfterLookups ==
    /\ writes <= 1
    /\ writes > 0 =>
          /\ Len(lookups) = Len(current_packages)
          /\ \A k \in DOMAIN lookups : lookups[k] # "raised"
    /\ (\E k \in DOMAIN lookups : lookups[k] = "raised") =>
          writes = 0 /\ pubspec = pubspec0

\* the lines of the packages whose lookup returned no version are as they
\* were before the run
NoVersionKeepsConstraint ==
    \A k \in DOMAIN lookups :
        lookups[k] = "none" =>
            \A i \in DOMAIN pubspec :
                pubspec[i].name = current_packages[k] => pubspec[i] = pubspec0[i]

\* C21: update.py writes pubspec.yaml at most once and only after every
\* lookup has finished; if a lookup raises the file is left as it was; and a
\* package whose lookup returned no version keeps its current version
\* constraint in the written file.
Cex_C21 == WrittenOnceAfterLookups /\ NoVersionKeepsConstraint


-----------------------------------------------------------------------------
(* Claims about code-workspace/deep_search_chat.py                         *)

\* the scan has looked at every item
ScanOver == ds_pc \in {"scan", "done"} /\ ds_idx > Len(all_items)

\* the item is among the reported ones
Reported(item) ==
    \E k \in DOMAIN potential_chat_items :
        /\ potential_chat_items[k].key = item.key
        /\ potential_chat_items[k].data = item.value

\* C22: deep_search_workspace_db reports every item whose key contains
\* chat, message, conversation or session in any case and whose value is not
\* empty, whatever the length and the content of the value.
Cex_C22 ==
    ScanOver =>
        \A i \in DOMAIN all_items :
            (key_suggests_chat(all_items[i].key) /\ all_items[i].value.len > 0)
                => Reported(all_items[i])

====
